---- MODULE Spec2Model ----
(***************************************************************************)
(* Black-oil primary variables (meaning state machine), the TPFA local     *)
(* residual, the convergence criterion and the Newton method of            *)
(* opm-models, modelled as state machines.                                 *)
(***************************************************************************)
EXTENDS Integers, Sequences, FiniteSets, TLC

(***************************************************************************)
(* Exact rationals, with which the double arithmetic below is computed: a  *)
(* rational is <<n, d>> with d > 0 and gcd(|n|, d) = 1, and the R*         *)
(* operators compute on rationals without rounding.  The model itself      *)
(* computes with the Scalar* operators further down.  In this module       *)
(* CHOOSE it \in {e : x \in {v}} : TRUE is the value of e with x standing   *)
(* for the value of v, which is evaluated once.                            *)
(***************************************************************************)
Abs(x) == IF x < 0 THEN -x ELSE x

RECURSIVE GCD(_, _)
GCD(a, b) == IF b = 0 THEN a ELSE GCD(b, a % b)

\* n/d in lowest terms
Reduced(n, d) ==
    CHOOSE it \in {IF d < 0 THEN <<(0 - n) \div g, (0 - d) \div g>>
                              ELSE <<n \div g, d \div g>> :
                   g \in {GCD(Abs(n), Abs(d))}} : TRUE

Zero == <<0, 1>>
One == <<1, 1>>

RAdd(a, b) == Reduced(a[1] * b[2] + b[1] * a[2], a[2] * b[2])
RSub(a, b) == Reduced(a[1] * b[2] - b[1] * a[2], a[2] * b[2])
RMul(a, b) == Reduced(a[1] * b[1], a[2] * b[2])
RDiv(a, b) == Reduced(a[1] * b[2], a[2] * b[1])
RNeg(a) == <<-a[1], a[2]>>
RLt(a, b) == a[1] * b[2] < b[1] * a[2]
RAbs(a) == <<Abs(a[1]), a[2]>>

(***************************************************************************)
(* Scalar is double.  A double takes one of three forms.  A double that is *)
(* a dyadic rational n/d of small numerator and denominator is <<n, d>>.   *)
(* A double near a rational n/d is <<n, d, bn, bd>> and is exactly         *)
(* n/d + (bn/bd) * 2^-60: n/d is the real number the double stands for,    *)
(* the second term is the rounding error it carries; with n = 0 it is a    *)
(* difference of such doubles, a dyadic rational times 2^-60.  Any other   *)
(* double is given by its bits: <<m1, m0, e>> is (m1 * 2^26 + m0) * 2^e    *)
(* with 2^26 <= |m1| < 2^27 and 0 <= m0 < 2^26, and (m1 * 2^26 - m0) * 2^e *)
(* when m1 < 0.  Such are the doubles whose exponent lies outside          *)
(* -32 .. 31 and the rounded products and quotients of a double with       *)
(* n = 0; the model compares them and does not compute with them.  Equal   *)
(* doubles are equal tuples.  The operations round to nearest, ties to     *)
(* even, with 53 significant bits, as the hardware does.                   *)
(***************************************************************************)
Main(x) == <<x[1], x[2]>>
Low(x) == IF Len(x) = 4 THEN <<x[3], x[4]>> ELSE Zero
Double(a, b) == IF b = Zero THEN a ELSE <<a[1], a[2], b[1], b[2]>>

RECURSIVE OddPart(_)
OddPart(d) == IF d % 2 = 0 THEN OddPart(d \div 2) ELSE d

RECURSIVE TwoExponent(_)
TwoExponent(d) == IF d % 2 = 0 THEN 1 + TwoExponent(d \div 2) ELSE 0

Pow2(e) == IF e >= 0 THEN <<2 ^ e, 1>> ELSE <<1, 2 ^ (0 - e)>>

\* The largest e with 2^e <= n/d, for n > 0 and d > 0
RECURSIVE FloorLog2(_, _)
FloorLog2(n, d) ==
    IF n >= 2 * d THEN 1 + FloorLog2(n, 2 * d)
    ELSE IF n < d THEN FloorLog2(2 * n, d) - 1
    ELSE 0

RECURSIVE Pow2Mod(_, _)
Pow2Mod(t, m) ==
    IF t <= 30 THEN (2 ^ t) % m ELSE ((2 ^ 30 % m) * Pow2Mod(t - 30, m)) % m

\* The double nearest to a + b * 2^-60 + q2 * 2^-120, where only the sign of
\* q2 matters (it breaks what would otherwise look like a tie).  The unit in
\* the last place is 2^s; a / 2^s is an integer, of which only the parity
\* R2 \div ko is needed, plus the fraction (R2 % ko) / ko.  With z the
\* fraction plus b * 2^-60 / 2^s and inc what rounding z adds to its integer
\* part, the double is a plus (integer part + inc - fraction) * 2^s.
roundAt(a, b, q2, s, ko, R2) ==
    CHOOSE it \in
        {CHOOSE it \in
            {Double(a, RMul(<<((z[1] \div z[2]) + inc) * ko - (R2 % ko), ko>>,
                            Pow2(60 + s))) :
                inc \in {IF \/ 2 * (z[1] % z[2]) > z[2]
                            \/ /\ 2 * (z[1] % z[2]) = z[2]
                               /\ \/ q2[1] > 0
                                  \/ /\ q2[1] = 0
                                     /\ ((R2 \div ko) + (z[1] \div z[2])) % 2 = 1
                         THEN 1 ELSE 0}} : TRUE :
         z \in {RAdd(<<R2 % ko, ko>>, RDiv(b, Pow2(60 + s)))}} : TRUE

\* The double nearest to a + b * 2^-60 + q2 * 2^-120 for a # 0.  The
\* exponent of the unit in the last place of the result is that of a, less
\* 52, and one less when a is a power of two and b pulls the result below
\* it.
roundMain(a, b, q2) ==
    IF b = Zero /\ OddPart(a[2]) = 1
    THEN a
    ELSE CHOOSE it \in
            {CHOOSE it \in
                {roundAt(a, b, q2, s, OddPart(a[2]), R2) :
                    R2 \in {((a[1] % (2 * OddPart(a[2])))
                              * Pow2Mod((0 - s) - TwoExponent(a[2]), 2 * OddPart(a[2])))
                             % (2 * OddPart(a[2]))}} : TRUE :
             s \in {FloorLog2(Abs(a[1]), a[2])
                      - (IF RAbs(a) = Pow2(FloorLog2(Abs(a[1]), a[2])) /\ b # Zero
                            /\ ((b[1] > 0) # (a[1] > 0))
                         THEN 53 ELSE 52)}} : TRUE

\* The first k binary digits of num/den, 1 <= num/den < 2, after the digits m,
\* and what is left of num
RECURSIVE TakeBits(_, _, _, _)
TakeBits(m, num, den, k) ==
    IF k = 0 THEN <<m, num>>
    ELSE TakeBits(2 * m + (num \div den), 2 * (num % den), den, k - 1)

\* r * 2^(52 - log) for the positive rational r, of which log is the
\* FloorLog2: <<m1, m0, f>> with the integer part m1 * 2^26 + m0 and the
\* fraction f
SignificantBitsAndRest(r, log) ==
    CHOOSE it \in
        {CHOOSE it \in
            {<<hi[1], lo[1], Reduced(lo[2], 2 * hi[3])>> :
                lo \in {TakeBits(0, hi[2], hi[3], 26)}} : TRUE :
         hi \in {TakeBits(0, f[1], f[2], 27) \o <<f[2]>> :
                    f \in {<<IF log < 0 THEN r[1] * 2 ^ (0 - log) ELSE r[1],
                             IF log < 0 THEN r[2] ELSE r[2] * 2 ^ log>>}}} : TRUE

\* The bits <<m1, m0>> of m1 * 2^26 + m0c, for m0c that may have left the
\* range of m0 by less than 2^26
CarryBits(m1, m0c) ==
    IF m0c < 0 THEN <<m1 - 1, m0c + 2 ^ 26>>
    ELSE IF m0c >= 2 ^ 26 THEN <<m1 + 1, m0c - 2 ^ 26>>
    ELSE <<m1, m0c>>

\* The double d > 0, exactly Main(d) + Low(d) * 2^-60, is m * 2^(E - 52)
\* with the integer 2^52 <= m < 2^53: the bits of m and E, as
\* <<m1, m0, E>>.  E is the FloorLog2 of the main part, or one less when
\* the main part is a power of two and the low part is negative; m is what
\* the main part gives, t[1] * 2^26 + t[2] + t[3], plus the low part over
\* 2^(E + 8); t[4] is E.
ExactBits(d) ==
    CHOOSE it \in
        {CHOOSE it \in
            {IF m[1] = 2 ^ 27 THEN <<2 ^ 26, 0, t[4] + 1>> ELSE <<m[1], m[2], t[4]>> :
                m \in {CarryBits(t[1],
                                 IF Len(d) = 2 THEN t[2]
                                 ELSE t[2] + RAdd(t[3], RDiv(Low(d), Pow2(t[4] + 8)))[1])}} : TRUE :
         t \in {IF Main(d) = Pow2(log) /\ Low(d)[1] < 0
                THEN <<2 ^ 27, 0, Zero, log - 1>>
                ELSE SignificantBitsAndRest(Main(d), log) \o <<log>> :
                   log \in {FloorLog2(d[1], d[2])}}} : TRUE

\* x * 2^-60 for a double x # 0: <<0, 1, n, d>> if x is a dyadic rational
\* n/d, else given by its bits
ScaledDown(x) ==
    IF Len(x) = 2 THEN <<0, 1, x[1], x[2]>>
    ELSE IF Len(x) = 3 THEN <<x[1], x[2], x[3] - 60>>
    ELSE CHOOSE it \in
            {CHOOSE it \in {<<d[1] * m[1], m[2], m[3] - 52 - d[2]>> :
                               m \in {ExactBits(d[3])}} : TRUE :
                d \in {IF x[1] = 0
                       THEN <<IF x[3] < 0 THEN -1 ELSE 1, 120, <<Abs(x[3]), x[4]>>>>
                       ELSE IF x[1] < 0 THEN <<-1, 60, <<-x[1], x[2], -x[3], x[4]>>>>
                       ELSE <<1, 60, x>>}} : TRUE

\* The double nearest to a + b * 2^-60 + q2 * 2^-120 + q3 * 2^-180, where of
\* the last term that is not zero only the sign matters.  With a = 0 it is
\* 2^-60 times the double nearest to b + q2 * 2^-60 + q3 * 2^-120: a sum or
\* difference is then a dyadic rational times 2^-60 that needs no rounding,
\* a product or quotient is rounded to 53 bits as any other.
RECURSIVE roundToDouble(_, _, _, _)
roundToDouble(a, b, q2, q3) ==
    IF a # Zero THEN roundMain(a, b, q2)
    ELSE IF b = Zero /\ q2 = Zero THEN Zero
    ELSE ScaledDown(roundToDouble(b, q2, q3, Zero))

\* The double nearest to a + b * 2^-60, the sum or difference of two
\* doubles: with a = 0 the two have cancelled to a dyadic rational times
\* 2^-60, which is a double.
roundSum(a, b) == IF a = Zero THEN Double(a, b) ELSE roundMain(a, b, Zero)

\* A literal of type Scalar: the double nearest to n/d
Rat(n, d) == CHOOSE it \in {roundMain(a, Zero, Zero) : a \in {Reduced(n, d)}} : TRUE

\* x + y, x - y, x * y and x / y of two doubles
ScalarAdd(x, y) ==
    CHOOSE it \in
        {roundSum(r[1], r[2]) :
            r \in {<<RAdd(Main(v[1]), Main(v[2])), RAdd(Low(v[1]), Low(v[2]))>> :
                      v \in {<<x, y>>}}} : TRUE
ScalarSub(x, y) ==
    CHOOSE it \in
        {roundSum(r[1], r[2]) :
            r \in {<<RSub(Main(v[1]), Main(v[2])), RSub(Low(v[1]), Low(v[2]))>> :
                      v \in {<<x, y>>}}} : TRUE
ScalarMul(x, y) ==
    CHOOSE it \in
        {roundToDouble(r[1], r[2], r[3], Zero) :
            r \in {<<RMul(Main(v[1]), Main(v[2])),
                     RAdd(RMul(Main(v[1]), Low(v[2])), RMul(Low(v[1]), Main(v[2]))),
                     RMul(Low(v[1]), Low(v[2]))>> :
                      v \in {<<x, y>>}}} : TRUE
\* The quotient is q[1] + q[2] * 2^-60 + q[3] * 2^-120 and so on, each term
\* the one before it times -Low(y) / Main(y) from the third on; the rounding
\* is given the terms it needs the value of, and the sign of the next.
NextTerm(q, y) == RNeg(RDiv(RMul(q, Low(y)), Main(y)))
ScalarDiv(x, y) ==
    CHOOSE it \in
        {roundToDouble(q[1], q[2], NextTerm(q[2], q[3]),
                       NextTerm(NextTerm(q[2], q[3]), q[3])) :
            q \in {<<p[1], RDiv(RSub(Low(p[2]), RMul(p[1], Low(p[3]))), Main(p[3])), p[3]>> :
                      p \in {<<RDiv(Main(v[1]), Main(v[2])), v[1], v[2]>> :
                                v \in {<<x, y>>}}}} : TRUE

\* -x and std::abs(x)
ScalarNeg(x) ==
    IF Len(x) = 4 THEN <<-x[1], x[2], -x[3], x[4]>>
    ELSE IF Len(x) = 3 THEN <<-x[1], x[2], x[3]>>
    ELSE <<-x[1], x[2]>>

\* The sign of a double: -1, 0 or 1
Sign(x) ==
    IF x[1] # 0 THEN (IF x[1] < 0 THEN -1 ELSE 1)
    ELSE IF Len(x) = 2 THEN 0
    ELSE IF Low(x)[1] < 0 THEN -1
    ELSE IF Low(x)[1] > 0 THEN 1
    ELSE 0

ScalarAbs(x) == IF Sign(x) < 0 THEN ScalarNeg(x) ELSE x

\* The 53 significant bits of the positive rational r, of which log is the
\* FloorLog2, as <<m1, m0>>
SignificantBits(r, log) ==
    CHOOSE it \in
        {<<hi[1], TakeBits(0, hi[2], hi[3], 26)[1]>> :
            hi \in {TakeBits(0, f[1], f[2], 27) \o <<f[2]>> :
                       f \in {<<IF log < 0 THEN r[1] * 2 ^ (0 - log) ELSE r[1],
                                IF log < 0 THEN r[2] ELSE r[2] * 2 ^ log>>}}} : TRUE

\* A positive double is m * 2^(e - 52) with 2^52 <= m < 2^53: Bits is
\* <<e, m1, m0>> with m = m1 * 2^26 + m0.  A double <<n, d, bn, bd>> with
\* n > 0 has an exponent in -31 .. 31, which no double given by its bits has,
\* and its significant bits are left out.
Bits(x) ==
    IF Len(x) = 3 THEN <<x[3] + 52, x[1], x[2]>>
    ELSE IF x[1] = 0
    THEN CHOOSE it \in {<<log - 60>> \o SignificantBits(Low(x), log) :
                           log \in {FloorLog2(x[3], x[4])}} : TRUE
    ELSE CHOOSE it \in {<<IF Main(x) = Pow2(log) /\ Low(x)[1] < 0 THEN log - 1 ELSE log,
                          0, 0>> :
                           log \in {FloorLog2(x[1], x[2])}} : TRUE

\* x < y of two positive doubles, one of them given by its bits
BitsLt(x, y) ==
    \E k \in {[i \in 1..2 |-> Bits(<<x, y>>[i])]} :
        \/ k[1][1] < k[2][1]
        \/ /\ k[1][1] = k[2][1]
           /\ (k[1][2] < k[2][2] \/ (k[1][2] = k[2][2] /\ k[1][3] < k[2][3]))

\* x < y, x <= y, x > y, x >= y, std::min(x, y) and std::max(x, y)
ScalarLt(x, y) ==
    IF Len(x) = 3 \/ Len(y) = 3
    THEN \E sign \in {[i \in 1..2 |-> Sign(<<x, y>>[i])]} :
            IF sign[1] # sign[2] THEN sign[1] < sign[2]
            ELSE sign[1] # 0
                 /\ \E p \in {IF sign[1] > 0 THEN <<x, y>>
                               ELSE <<ScalarNeg(y), ScalarNeg(x)>>} : BitsLt(p[1], p[2])
    ELSE \/ RLt(Main(x), Main(y))
         \/ Main(x) = Main(y) /\ RLt(Low(x), Low(y))
ScalarLe(x, y) == ~ScalarLt(y, x)
ScalarGt(x, y) == ScalarLt(y, x)
ScalarGe(x, y) == ~ScalarLt(x, y)
ScalarMin(x, y) ==
    CHOOSE it \in {IF ScalarLt(v[2], v[1]) THEN v[2] ELSE v[1] : v \in {<<x, y>>}} : TRUE
ScalarMax(x, y) ==
    CHOOSE it \in {IF ScalarLt(v[1], v[2]) THEN v[2] ELSE v[1] : v \in {<<x, y>>}} : TRUE

\* F(v), with v evaluated once
With(v, F(_)) == CHOOSE r \in {F(x) : x \in {v}} : TRUE

(***************************************************************************)
(* Bounds of the model.                                                    *)
(***************************************************************************)
\* A Newton update writes k/2 into a saturation-like slot, with
\* -2 <= k <= MaxSatHalves.
MaxSatHalves == 2
\* Largest pressure a Newton update may write into the pressure slot.  The
\* capillary corrections may move the slot one unit beyond it.
MaxPressure == 2
\* Largest k of the values k/2 written before a saturation chop.
MaxChopHalves == 3
\* Largest phase pressure of cell A; cell B and the boundary stay at 2.
MaxFacePressure == 3
\* Largest k of the values k/2 a Newton update that overshoots may write.
MaxOvershootHalves == 4

VARIABLES
    cfg,                          \* compile-time configuration (TypeTag)
    pv,                           \* the raw slot values of the vector
    primaryVarsMeaningWater,
    primaryVarsMeaningPressure,
    primaryVarsMeaningGas,
    primaryVarsMeaningBrine,
    pvtRegionIdx,
    thresholdWaterFilledCell,     \* function-local static of adaptPrimaryVariables
    lastOp,                       \* the operation that produced this state
    ret,                          \* value returned by the last operation
    fired,                        \* transitions taken by the last adaptPrimaryVariables
    assertFailed,                 \* an assert() of the last operation did not hold
    intQuants,                    \* intensive quantities of the cells of a face
    residual,                     \* inputs and result of the last local-residual call
    checkpoint,                   \* serializer buffer and the object restored from it
    criterion,                    \* the data members of the convergence criterion
    newton                        \* the Newton method and the call of execute in progress

pvVars == <<pv, primaryVarsMeaningWater, primaryVarsMeaningPressure,
            primaryVarsMeaningGas, primaryVarsMeaningBrine, pvtRegionIdx>>

vars == <<cfg, pv, primaryVarsMeaningWater, primaryVarsMeaningPressure,
          primaryVarsMeaningGas, primaryVarsMeaningBrine, pvtRegionIdx,
          thresholdWaterFilledCell, lastOp, ret, fired,
          assertFailed, intQuants, residual, checkpoint, criterion, newton>>

(***************************************************************************)
(* Configurations.  The TypeTag fixes the active phases (Indices and       *)
(* FluidSystem::phaseIsActive agree), the dissolution and vaporization     *)
(* options of the fluid system, and the optional modules.  A dissolution   *)
(* option needs both of its phases; the composition switch exists in       *)
(* models with gas and oil only.                                           *)
(***************************************************************************)
ConfigFields ==
    [waterEnabled : BOOLEAN, gasEnabled : BOOLEAN, oilEnabled : BOOLEAN,
     enableDissolvedGas : BOOLEAN, enableVaporizedOil : BOOLEAN,
     enableVaporizedWater : BOOLEAN, enableDissolvedGasInWater : BOOLEAN,
     enableSaltPrecipitation : BOOLEAN, enableSolvent : BOOLEAN,
     blackoilConserveSurfaceVolume : BOOLEAN]

ValidConfig(c) ==
    /\ c.waterEnabled \/ c.gasEnabled \/ c.oilEnabled
    /\ c.enableDissolvedGas => (c.gasEnabled /\ c.oilEnabled)
    /\ c.enableVaporizedOil => (c.gasEnabled /\ c.oilEnabled)
    /\ c.enableVaporizedWater => (c.gasEnabled /\ c.waterEnabled)
    /\ c.enableDissolvedGasInWater => (c.gasEnabled /\ c.waterEnabled)
    /\ c.enableSaltPrecipitation => c.waterEnabled
    /\ c.enableSolvent => (c.waterEnabled /\ c.gasEnabled /\ c.oilEnabled)

\* The optional modules are exercised in a bounded choice of models: salt
\* precipitation in the models with water and oil and no dissolution, the
\* solvent in the three-phase model with dissolved gas and vaporized oil.
\* The primary variables do not read BlackoilConserveSurfaceVolume.
ModuleConfig(c) ==
    /\ c.blackoilConserveSurfaceVolume
    /\ c.enableSaltPrecipitation =>
        /\ c.oilEnabled /\ ~c.enableSolvent
        /\ ~c.enableDissolvedGas /\ ~c.enableVaporizedOil
        /\ ~c.enableVaporizedWater /\ ~c.enableDissolvedGasInWater
    /\ c.enableSolvent =>
        /\ c.enableDissolvedGas /\ c.enableVaporizedOil
        /\ ~c.enableVaporizedWater /\ ~c.enableDissolvedGasInWater

Configs == {c \in ConfigFields : ValidConfig(c) /\ ModuleConfig(c)}

phaseIsActive(phaseIdx) ==
    CASE phaseIdx = "water" -> cfg.waterEnabled
      [] phaseIdx = "gas" -> cfg.gasEnabled
      [] phaseIdx = "oil" -> cfg.oilEnabled

numActivePhases ==
    Cardinality({ph \in {"water", "gas", "oil"} : phaseIsActive(ph)})

compositionSwitchEnabled == cfg.gasEnabled /\ cfg.oilEnabled

(***************************************************************************)
(* External collaborators, modelled as fixed pure functions: the material  *)
(* law (capillary pressures relative to the oil phase), the PVT oracle     *)
(* (saturated dissolution and vaporization factors, ignoring temperature   *)
(* and salt concentration) and the per-cell maxima of the problem.         *)
(***************************************************************************)
Half == Rat(1, 2)

\* MaterialLaw::capillaryPressures on a saturation-only fluid state:
\* pC[oil] = 0, pC[gas] = pcgo(sg) and pC[water] = -pcow(sw), with pcgo 1
\* above half gas and 0 below, and pcow 1 above half water and 2 below: the
\* shift pC[gas] - pC[water] is nowhere zero, not at full water either.
computeCapillaryPressures_(so, sg, sw) ==
    [oil   |-> Zero,
     gas   |-> IF ScalarGt(sg, Half) THEN One ELSE Zero,
     water |-> IF ScalarGt(sw, Half) THEN ScalarNeg(One) ELSE ScalarNeg(Rat(2, 1))]

saturatedWaterVaporizationFactor(p, saltConcentration) == ScalarMul(p, Rat(1, 8))

saturatedGasDissolutionFactorWater(p, saltConcentration) == ScalarMul(p, Rat(1, 4))

\* oilPvt().saturatedGasDissolutionFactor(region, T, po, so, soMax): less gas
\* dissolves once the oil saturation has dropped below its maximum.
saturatedGasDissolutionFactor(po, so, soMax) ==
    IF ScalarLt(so, soMax) THEN ScalarMul(po, Rat(1, 4)) ELSE ScalarMul(po, Half)

saturatedOilVaporizationFactor(pg, so, soMax) == ScalarMul(pg, Rat(1, 8))

maxOilSaturation == Half
maxGasDissolutionFactor == One
maxOilVaporizationFactor == Half
saltSol == Half

(***************************************************************************)
(* The primary variable vector as a value: the slots and the four tags.    *)
(***************************************************************************)
Self ==
    [v  |-> pv,
     mw |-> primaryVarsMeaningWater,
     mp |-> primaryVarsMeaningPressure,
     mg |-> primaryVarsMeaningGas,
     mb |-> primaryVarsMeaningBrine]

Tags(s) == <<s.mw, s.mp, s.mg, s.mb>>

solventSaturation_(s) == IF cfg.enableSolvent THEN s.v.solvent ELSE Zero

(***************************************************************************)
(* assignNaive: derive tags and slots from a fluid state fs with fields    *)
(* S (saturation per phase), p (pressure per phase), Rs, Rv, Rsw, Rvw and  *)
(* saltSaturation.                                                         *)
(***************************************************************************)
phasePresent(fs, phaseIdx) ==
    IF phaseIsActive(phaseIdx) THEN ScalarGt(fs.S[phaseIdx], Zero) ELSE FALSE

\* assignNaivePressureMeaning that tests the active oil phase first.
assignNaivePressureMeaningOilFirst(fs) ==
    LET gasPresent == phasePresent(fs, "gas")
        oilPresent == phasePresent(fs, "oil")
        waterPresent == phasePresent(fs, "water")
    IN  IF phaseIsActive("oil") THEN "Po"
        ELSE IF gasPresent /\ cfg.enableVaporizedOil /\ ~oilPresent THEN "Pg"
        ELSE IF waterPresent /\ cfg.enableDissolvedGasInWater /\ ~gasPresent THEN "Pw"
        ELSE IF phaseIsActive("gas") THEN "Pg"
        ELSE "Pw"

assignNaivePressureMeaning(fs) ==
    LET gasPresent == phasePresent(fs, "gas")
        oilPresent == phasePresent(fs, "oil")
        waterPresent == phasePresent(fs, "water")
    IN  IF gasPresent /\ cfg.enableVaporizedOil /\ ~oilPresent THEN "Pg"
        ELSE IF phaseIsActive("oil") THEN "Po"
        ELSE IF waterPresent /\ cfg.enableDissolvedGasInWater /\ ~gasPresent THEN "Pw"
        ELSE IF phaseIsActive("gas") THEN "Pg"
        ELSE "Pw"

\* assignNaiveWaterMeaning that keeps the saturation in one-phase models.
assignNaiveWaterMeaningOnePhase(fs) ==
    LET gasPresent == phasePresent(fs, "gas")
        waterPresent == phasePresent(fs, "water")
    IN  IF waterPresent /\ gasPresent THEN "Sw"
        ELSE IF gasPresent /\ cfg.enableVaporizedWater THEN "Rvw"
        ELSE IF waterPresent /\ cfg.enableDissolvedGasInWater THEN "Rsw"
        ELSE IF phaseIsActive("water") THEN "Sw"
        ELSE "Disabled"

assignNaiveWaterMeaning(fs) ==
    LET gasPresent == phasePresent(fs, "gas")
        waterPresent == phasePresent(fs, "water")
        oneActivePhases == numActivePhases = 1
    IN  IF waterPresent /\ gasPresent THEN "Sw"
        ELSE IF gasPresent /\ cfg.enableVaporizedWater THEN "Rvw"
        ELSE IF waterPresent /\ cfg.enableDissolvedGasInWater THEN "Rsw"
        ELSE IF phaseIsActive("water") /\ ~oneActivePhases THEN "Sw"
        ELSE "Disabled"

\* assignNaiveGasMeaning whose last test asks for the gas phase only.
assignNaiveGasMeaningGasOnly(fs) ==
    LET gasPresent == phasePresent(fs, "gas")
        oilPresent == phasePresent(fs, "oil")
    IN  IF gasPresent /\ oilPresent THEN "Sg"
        ELSE IF oilPresent /\ cfg.enableDissolvedGas THEN "Rs"
        ELSE IF gasPresent /\ cfg.enableVaporizedOil THEN "Rv"
        ELSE IF phaseIsActive("gas") THEN "Sg"
        ELSE "Disabled"

assignNaiveGasMeaning(fs) ==
    LET gasPresent == phasePresent(fs, "gas")
        oilPresent == phasePresent(fs, "oil")
    IN  IF gasPresent /\ oilPresent THEN "Sg"
        ELSE IF oilPresent /\ cfg.enableDissolvedGas THEN "Rs"
        ELSE IF gasPresent /\ cfg.enableVaporizedOil THEN "Rv"
        ELSE IF phaseIsActive("gas") /\ phaseIsActive("oil") THEN "Sg"
        ELSE "Disabled"

assignNaiveBrineMeaning(fs) ==
    IF cfg.enableSaltPrecipitation
    THEN (IF ScalarGt(fs.saltSaturation, Zero) THEN "Sp" ELSE "Cs")
    ELSE "Disabled"

assignNaive(s, fs) ==
    LET mp == assignNaivePressureMeaning(fs)
        mw == assignNaiveWaterMeaning(fs)
        mg == assignNaiveGasMeaning(fs)
        mb == assignNaiveBrineMeaning(fs)
        pressure == CASE mp = "Po" -> fs.p["oil"]
                      [] mp = "Pg" -> fs.p["gas"]
                      [] mp = "Pw" -> fs.p["water"]
        water == CASE mw = "Sw" -> fs.S["water"]
                   [] mw = "Rvw" -> fs.Rvw
                   [] mw = "Rsw" -> fs.Rsw
                   [] mw = "Disabled" -> s.v.water
        gas == CASE mg = "Sg" -> fs.S["gas"]
                 [] mg = "Rs" -> fs.Rs
                 [] mg = "Rv" -> fs.Rv
                 [] mg = "Disabled" -> s.v.gas
    IN  [v  |-> [s.v EXCEPT !.pressure = pressure, !.water = water, !.gas = gas],
         mw |-> mw, mp |-> mp, mg |-> mg, mb |-> mb]

(***************************************************************************)
(* adaptPrimaryVariables.  The saturations sw and sg are read once, before *)
(* any switch, and the switches that follow use these values.              *)
(***************************************************************************)
readSw(s) == IF s.mw = "Sw" THEN s.v.water ELSE Zero

readSg(s) ==
    IF s.mg = "Sg" THEN s.v.gas
    ELSE IF s.mg = "Disabled" /\ cfg.gasEnabled THEN ScalarSub(One, readSw(s))
    ELSE Zero

\* Sp <-> Cs; the switch is made before `changed` is declared.
adaptBrine(s, eps) ==
    IF ~cfg.enableSaltPrecipitation
    THEN [s |-> s, saltConcentration |-> Zero, fired |-> {}]
    ELSE IF s.mb = "Sp"
    THEN IF ScalarLt(s.v.salt, ScalarNeg(eps))
         THEN [s |-> [s EXCEPT !.mb = "Cs", !.v.salt = saltSol],
               saltConcentration |-> saltSol, fired |-> {"Sp2Cs"}]
         ELSE [s |-> s, saltConcentration |-> saltSol, fired |-> {}]
    ELSE IF s.mb = "Cs"
    THEN IF ScalarGt(s.v.salt, ScalarAdd(saltSol, eps))
         THEN [s |-> [s EXCEPT !.mb = "Sp", !.v.salt = Zero],
               saltConcentration |-> s.v.salt, fired |-> {"Cs2Sp"}]
         ELSE [s |-> s, saltConcentration |-> s.v.salt, fired |-> {}]
    ELSE [s |-> s, saltConcentration |-> Zero, fired |-> {}]

\* The value returned for a cell with almost only water.
waterFilledChanged(s) == s.mg # "Sg"

\* The cell with almost only water: sw := 1, gas slot := 0, gas meaning Sg.
waterFilledCell(s) ==
    LET s1 == IF cfg.waterEnabled THEN [s EXCEPT !.v.water = One] ELSE s
        s2 == IF compositionSwitchEnabled THEN [s1 EXCEPT !.v.gas = Zero] ELSE s1
        changed == waterFilledChanged(s)
        s3 == IF changed /\ compositionSwitchEnabled
              THEN [s2 EXCEPT !.mg = "Sg"] ELSE s2
    IN  [s |-> s3, changed |-> changed, fired |-> {"waterFilled"},
         af |-> cfg.waterEnabled /\ s.mw # "Sw"]

\* The gas pressure used for the water vaporization factor.
vaporizationPressure(s, sg) ==
    IF s.mp = "Po"
    THEN LET so == ScalarSub(ScalarSub(One, sg), solventSaturation_(s))
             pC == computeCapillaryPressures_(so, ScalarAdd(sg, solventSaturation_(s)), Zero)
         IN  ScalarAdd(s.v.pressure, ScalarSub(pC.gas, pC.oil))
    ELSE s.v.pressure

\* switchSwToRvw with the vaporization factor looked up at the pressure slot.
switchSwToRvwAtSlotPressure(s, sg, saltConcentration) ==
    LET rvwSat == saturatedWaterVaporizationFactor(s.v.pressure, saltConcentration)
    IN  [s EXCEPT !.mw = "Rvw", !.v.water = rvwSat]

\* Sw -> Rvw: the water phase disappears.
switchSwToRvw(s, sg, saltConcentration) ==
    LET rvwSat == saturatedWaterVaporizationFactor(vaporizationPressure(s, sg),
                                                   saltConcentration)
    IN  [s EXCEPT !.mw = "Rvw", !.v.water = rvwSat]

\* switchSwToRsw with the dissolution factor looked up at the gas pressure.
switchSwToRswAtGasPressure(s, sw, saltConcentration) ==
    LET pg == s.v.pressure
        so == ScalarSub(ScalarSub(One, sw), solventSaturation_(s))
        pC == computeCapillaryPressures_(so, Zero, sw)
        pw == ScalarAdd(pg, ScalarSub(pC.water, pC.gas))
        rswSat == saturatedGasDissolutionFactorWater(pg, saltConcentration)
    IN  [s EXCEPT !.mw = "Rsw", !.v.water = rswSat, !.mp = "Pw", !.v.pressure = pw]

\* Sw -> Rsw and Pg -> Pw: the gas phase disappears.
switchSwToRsw(s, sw, saltConcentration) ==
    LET pg == s.v.pressure
        so == ScalarSub(ScalarSub(One, sw), solventSaturation_(s))
        pC == computeCapillaryPressures_(so, Zero, sw)
        pw == ScalarAdd(pg, ScalarSub(pC.water, pC.gas))
        rswSat == saturatedGasDissolutionFactorWater(pw, saltConcentration)
    IN  [s EXCEPT !.mw = "Rsw", !.v.water = rswSat, !.mp = "Pw", !.v.pressure = pw]

\* Rsw -> Sw and Pw -> Pg: the gas phase appears.
switchRswToSw(s) ==
    LET pw == s.v.pressure
        pC == computeCapillaryPressures_(Zero, Zero, One)
        pg == ScalarAdd(pw, ScalarSub(pC.gas, pC.water))
    IN  [s EXCEPT !.mw = "Sw", !.v.water = One, !.mp = "Pg", !.v.pressure = pg]

adaptWater(s, sw, sg, saltConcentration, eps) ==
    CASE s.mw = "Sw" ->
           IF ScalarLt(sw, ScalarNeg(eps)) /\ ScalarGt(sg, eps) /\ cfg.enableVaporizedWater
           THEN [s |-> switchSwToRvw(s, sg, saltConcentration), changed |-> TRUE,
                 fired |-> {"Sw2Rvw"}, af |-> FALSE]
           ELSE IF ScalarLt(sg, ScalarNeg(eps)) /\ ScalarGt(sw, eps) /\ cfg.enableDissolvedGasInWater
           THEN [s |-> switchSwToRsw(s, sw, saltConcentration), changed |-> TRUE,
                 fired |-> {"Sw2Rsw"}, af |-> s.mp # "Pg"]
           ELSE [s |-> s, changed |-> FALSE, fired |-> {}, af |-> FALSE]
      [] s.mw = "Rvw" ->
           LET rvw == s.v.water
               rvwSat == saturatedWaterVaporizationFactor(vaporizationPressure(s, sg),
                                                          saltConcentration)
           IN  IF ScalarGt(rvw, ScalarMul(rvwSat, ScalarAdd(One, eps)))
               THEN [s |-> [s EXCEPT !.mw = "Sw", !.v.water = Zero], changed |-> TRUE,
                     fired |-> {"Rvw2Sw"}, af |-> FALSE]
               ELSE [s |-> s, changed |-> FALSE, fired |-> {}, af |-> FALSE]
      [] s.mw = "Rsw" ->
           LET rswSat == saturatedGasDissolutionFactorWater(s.v.pressure, saltConcentration)
               rsw == s.v.water
           IN  IF ScalarGt(rsw, rswSat)
               THEN [s |-> switchRswToSw(s), changed |-> TRUE,
                     fired |-> {"Rsw2Sw"}, af |-> s.mp # "Pw"]
               ELSE [s |-> s, changed |-> FALSE, fired |-> {}, af |-> s.mp # "Pw"]
      [] s.mw = "Disabled" ->
           [s |-> s, changed |-> FALSE, fired |-> {}, af |-> FALSE]

\* Sg -> Rs: the gas phase disappears.
switchSgToRs(s, sw) ==
    LET so == ScalarSub(ScalarSub(One, sw), solventSaturation_(s))
        po == s.v.pressure
        soMax == ScalarMax(so, maxOilSaturation)
        rsMax == maxGasDissolutionFactor
        rsSat == saturatedGasDissolutionFactor(po, so, soMax)
    IN  [s EXCEPT !.mg = "Rs", !.v.gas = ScalarMin(rsMax, rsSat)]

\* switchSgToRv with the vaporization factor looked up at the oil pressure.
switchSgToRvAtOilPressure(s, sw, sg) ==
    LET po == s.v.pressure
        pC == computeCapillaryPressures_(Zero, ScalarAdd(sg, solventSaturation_(s)), sw)
        pg == ScalarAdd(po, ScalarSub(pC.gas, pC.oil))
        soMax == maxOilSaturation
        rvMax == maxOilVaporizationFactor
        rvSat == saturatedOilVaporizationFactor(po, Zero, soMax)
    IN  [s EXCEPT !.mp = "Pg", !.v.pressure = pg, !.mg = "Rv",
                  !.v.gas = ScalarMin(rvMax, rvSat)]

\* Sg -> Rv and Po -> Pg: the oil phase disappears.
switchSgToRv(s, sw, sg) ==
    LET po == s.v.pressure
        pC == computeCapillaryPressures_(Zero, ScalarAdd(sg, solventSaturation_(s)), sw)
        pg == ScalarAdd(po, ScalarSub(pC.gas, pC.oil))
        soMax == maxOilSaturation
        rvMax == maxOilVaporizationFactor
        rvSat == saturatedOilVaporizationFactor(pg, Zero, soMax)
    IN  [s EXCEPT !.mp = "Pg", !.v.pressure = pg, !.mg = "Rv",
                  !.v.gas = ScalarMin(rvMax, rvSat)]

\* switchRvToSg that leaves the pressure slot and its meaning alone.
switchRvToSgKeepingPressure(s, sw) ==
    LET sg2 == ScalarSub(ScalarSub(One, sw), solventSaturation_(s))
    IN  [s EXCEPT !.mg = "Sg", !.v.gas = sg2]

\* Rv -> Sg and Pg -> Po: the oil phase appears.
switchRvToSg(s, sw) ==
    LET pg == s.v.pressure
        sg2 == ScalarSub(ScalarSub(One, sw), solventSaturation_(s))
        pC == computeCapillaryPressures_(Zero, ScalarAdd(sg2, solventSaturation_(s)), sw)
        po == ScalarAdd(pg, ScalarSub(pC.oil, pC.gas))
    IN  [s EXCEPT !.mg = "Sg", !.mp = "Po", !.v.pressure = po, !.v.gas = sg2]

adaptGas(s, sw, sg, eps) ==
    CASE s.mg = "Sg" ->
           LET s0 == ScalarSub(ScalarSub(One, sw), solventSaturation_(s))
               toRs == ScalarLt(sg, ScalarNeg(eps)) /\ ScalarGt(s0, Zero) /\ cfg.enableDissolvedGas
               s1 == IF toRs THEN switchSgToRs(s, sw) ELSE s
               so == ScalarSub(ScalarSub(ScalarSub(One, sw), solventSaturation_(s)), sg)
               toRv == ScalarLt(so, ScalarNeg(eps)) /\ ScalarGt(sg, Zero) /\ cfg.enableVaporizedOil
               s2 == IF toRv THEN switchSgToRv(s1, sw, sg) ELSE s1
           IN  [s |-> s2, changed |-> toRs \/ toRv,
                fired |-> (IF toRs THEN {"Sg2Rs"} ELSE {}) \cup
                          (IF toRv THEN {"Sg2Rv"} ELSE {})]
      [] s.mg = "Rs" ->
           LET po == s.v.pressure
               so == ScalarSub(ScalarSub(One, sw), solventSaturation_(s))
               soMax == ScalarMax(so, maxOilSaturation)
               rsMax == maxGasDissolutionFactor
               rsSat == saturatedGasDissolutionFactor(po, so, soMax)
               rs == s.v.gas
           IN  IF ScalarGt(rs, ScalarMin(rsMax, ScalarMul(rsSat, ScalarAdd(One, eps))))
               THEN [s |-> [s EXCEPT !.mg = "Sg", !.v.gas = Zero], changed |-> TRUE,
                     fired |-> {"Rs2Sg"}]
               ELSE [s |-> s, changed |-> FALSE, fired |-> {}]
      [] s.mg = "Rv" ->
           LET pg == s.v.pressure
               soMax == maxOilSaturation
               rvMax == maxOilVaporizationFactor
               rvSat == saturatedOilVaporizationFactor(pg, Zero, soMax)
               rv == s.v.gas
           IN  IF ScalarGt(rv, ScalarMin(rvMax, ScalarMul(rvSat, ScalarAdd(One, eps))))
               THEN [s |-> switchRvToSg(s, sw), changed |-> TRUE, fired |-> {"Rv2Sg"}]
               ELSE [s |-> s, changed |-> FALSE, fired |-> {}]
      [] s.mg = "Disabled" ->
           [s |-> s, changed |-> FALSE, fired |-> {}]

\* The test that selects the shortcut for a cell with almost only water.
isWaterFilledCell(sw, threshold) ==
    ScalarGe(sw, threshold) /\ ~cfg.enableDissolvedGasInWater

\* The whole call, given the value the static threshold has during it.
adaptPrimaryVariables(s, eps, threshold) ==
    IF s.mw = "Disabled" /\ s.mg = "Disabled"
    THEN [s |-> s, changed |-> FALSE, fired |-> {}, af |-> FALSE]
    ELSE LET sw == readSw(s)
             sg == readSg(s)
             b  == adaptBrine(s, eps)
         IN  IF isWaterFilledCell(sw, threshold)
             THEN LET f == waterFilledCell(b.s)
                  IN  [f EXCEPT !.fired = f.fired \cup b.fired]
             ELSE LET w == adaptWater(b.s, sw, sg, b.saltConcentration, eps)
                      g == adaptGas(w.s, sw, sg, eps)
                  IN  [s |-> g.s, changed |-> w.changed \/ g.changed,
                       fired |-> b.fired \cup w.fired \cup g.fired, af |-> w.af]

\* static const Scalar thresholdWaterFilledCell = 1.0 - eps: initialised by
\* the first call that reaches the declaration, kept by every later call.
staticThreshold(current, eps) ==
    IF current = <<>> THEN ScalarSub(One, eps) ELSE current

(***************************************************************************)
(* chopAndNormalizeSaturations.                                            *)
(***************************************************************************)
\* clamp01 with the lower bound -1/4.
clamp01FromMinusQuarter(x) == ScalarMin(ScalarMax(x, <<-1, 4>>), One)

\* std::min(std::max(x, 0.0), 1.0)
clamp01(x) == ScalarMin(ScalarMax(x, Zero), One)

\* Scalar so = 1.0 - sw - sg - ssol, rounded after each subtraction
oilRemainder(sw, sg, ssol) == ScalarSub(ScalarSub(ScalarSub(One, sw), sg), ssol)

\* clampedSum that leaves out the oil remainder.
clampedSumWithoutOil(sw, sg, ssol) ==
    ScalarAdd(ScalarAdd(clamp01(sw), clamp01(sg)), clamp01(ssol))

\* The sum st = sw + so + sg + ssol of the four clamped saturations, rounded
\* after each addition.
clampedSum(sw, sg, ssol) ==
    ScalarAdd(ScalarAdd(ScalarAdd(clamp01(sw), clamp01(oilRemainder(sw, sg, ssol))),
                        clamp01(sg)),
              clamp01(ssol))

\* chopReturn reporting a sum above one half as a rescaling.
chopReturnAboveHalf(st) == ScalarLt(Half, st)

\* The value returned: !(st == 1).
chopReturn(st) == st # One

chopAndNormalizeSaturations(s) ==
    IF s.mw = "Disabled" /\ s.mg = "Disabled"
    THEN [s |-> s, ret |-> FALSE, af |-> FALSE, fired |-> {}]
    ELSE LET sw == IF s.mw = "Sw" THEN s.v.water ELSE Zero
             sg == IF s.mg = "Sg" THEN s.v.gas ELSE Zero
             ssol == IF cfg.enableSolvent THEN s.v.solvent ELSE Zero
         IN  With(<<clampedSum(sw, sg, ssol), oilRemainder(sw, sg, ssol),
                    clamp01(sw), clamp01(sg), clamp01(ssol)>>,
                  LAMBDA v :
                     LET st == v[1]
                         so == v[2]
                         s1 == IF s.mw = "Sw"
                               THEN [s EXCEPT !.v.water = ScalarDiv(v[3], st)]
                               ELSE s
                         s2 == IF s.mg = "Sg"
                               THEN [s1 EXCEPT !.v.gas = ScalarDiv(v[4], st)]
                               ELSE s1
                         s3 == IF cfg.enableSolvent
                               THEN [s2 EXCEPT !.v.solvent = ScalarDiv(v[5], st)]
                               ELSE s2
                         clamped == {x \in {"sw", "so", "sg", "ssol"} :
                                        CASE x = "sw" -> v[3] # sw
                                          [] x = "so" -> clamp01(so) # so
                                          [] x = "sg" -> v[4] # sg
                                          [] OTHER -> v[5] # ssol}
                     IN  [s |-> s3, ret |-> chopReturn(st), af |-> ~ScalarLt(Half, st),
                          fired |-> clamped])

(***************************************************************************)
(* The TPFA local residual.  A face joins the cells A and B; A also lies   *)
(* on the boundary of the domain.  Vectors of conservation quantities      *)
(* (RateVector, the storage vector) are functions from the components to   *)
(* doubles; the slot of a component that is not active stays zero.         *)
(* Only the values of the automatic-differentiation objects are modelled.  *)
(***************************************************************************)
Phases == {"water", "oil", "gas"}

\* The phases in the order of the phase index.
PhaseOrder == <<"water", "oil", "gas">>

\* FluidSystem::solventComponentIndex: the component a phase mainly carries.
solventComponentIndex(phaseIdx) == phaseIdx

\* A vector with every slot zero (flux = 0.0, storage = 0.0).
ZeroVector == [compIdx \in Phases |-> Zero]

\* A default-constructed RateVector.
DefaultRateVector == ZeroVector

AddTo(container, compIdx, x) ==
    [container EXCEPT ![compIdx] = ScalarAdd(container[compIdx], x)]

\* bdyFlux[i] += tmp[i] for every slot i.
AddVector(a, b) == [compIdx \in Phases |-> ScalarAdd(a[compIdx], b[compIdx])]

\* FluidSystem::referenceDensity(phaseIdx, pvtRegionIdx): the surface density
\* of the pure component, given per PVT region.
referenceDensity(phaseIdx, regionIdx) ==
    CASE phaseIdx = "water" -> Rat(3 + regionIdx, 1)
      [] phaseIdx = "oil" -> Rat(2 + regionIdx, 1)
      [] phaseIdx = "gas" -> Rat(5 + regionIdx, 1)

\* Pressures of the three phases of cell A or of the boundary fluid state.
FacePressures == {Rat(k, 1) : k \in 1..MaxFacePressure}

\* Volume fluxes the boundary-gradient collaborator may report for a phase.
VolumeFluxValues == {ScalarNeg(One), Rat(2, 1)}

\* Transmissibilities of the face.
TransValues == {One, Rat(3, 2)}

\* The area of the face.
scvfArea == Rat(2, 1)

\* The intensive quantities of cell A, of cell B and the fluid state of the
\* boundary condition.  Mobilities and multipliers such as 1/3, 1/5, 3/5 and
\* 9/10 are not doubles, and with the pressures of cell B a pressure
\* difference may be 3/2 or 5/2: products of them are rounded.
InitialIntensiveQuantities ==
    [A |-> [globalIndex |-> 0, pvtRegionIndex |-> 0, volume |-> One,
            pressure |-> [ph \in Phases |-> Rat(2, 1)],
            saturation |-> [water |-> Rat(1, 4), oil |-> Half, gas |-> Rat(1, 4)],
            invB |-> [water |-> One, oil |-> Half, gas |-> Rat(2, 1)],
            mobility |-> [water |-> Rat(1, 3), oil |-> Rat(2, 1), gas |-> Rat(3, 1)],
            porosity |-> Half, rockCompTransMultiplier |-> Rat(3, 5),
            Rs |-> Half, Rv |-> Rat(1, 4), Rsw |-> Rat(3, 8), Rvw |-> Rat(1, 8)],
     B |-> [globalIndex |-> 1, pvtRegionIndex |-> 1, volume |-> Rat(2, 1),
            pressure |-> [water |-> Rat(3, 2), oil |-> Rat(2, 1), gas |-> Rat(5, 2)],
            saturation |-> [water |-> Half, oil |-> Rat(1, 4), gas |-> Rat(1, 4)],
            invB |-> [water |-> Half, oil |-> One, gas |-> Rat(3, 1)],
            mobility |-> [water |-> Rat(2, 1), oil |-> One, gas |-> Rat(1, 5)],
            porosity |-> Rat(1, 4), rockCompTransMultiplier |-> Rat(9, 10),
            Rs |-> Rat(1, 4), Rv |-> Half, Rsw |-> Rat(1, 8), Rvw |-> Rat(3, 8)],
     boundary |-> [pressure |-> [ph \in Phases |-> Rat(2, 1)],
            invB |-> [water |-> Rat(3, 1), oil |-> Rat(2, 1), gas |-> One],
            Rs |-> Rat(3, 8), Rv |-> Rat(1, 8), Rsw |-> Half, Rvw |-> Rat(1, 4)]]

\* The local indices computeFlux hands to the collaborator.
interiorDofIdx == 0
exteriorDofIdx == 1

\* ExtensiveQuantities::calculatePhasePressureDiff_: the pressure difference
\* of a phase from the interior to the exterior cell, corrected for gravity
\* and cut off by the threshold pressure, and the upwind cell: the cell of
\* the higher potential, on a tie the cell of the larger volume, then the one
\* of the smaller global index.
calculatePhasePressureDiff_(intQuantsIn, intQuantsEx, phaseIdx, distZg, thpres) ==
    LET cutOff(raw) ==
            IF ScalarLe(raw, thpres) /\ ScalarGe(raw, ScalarNeg(thpres)) THEN Zero
            ELSE IF ScalarGt(raw, Zero) THEN ScalarSub(raw, thpres) ELSE ScalarAdd(raw, thpres)
        upIdx(pressureDifference) ==
            IF ScalarGt(pressureDifference, Zero) THEN exteriorDofIdx
            ELSE IF ScalarLt(pressureDifference, Zero) THEN interiorDofIdx
            ELSE IF ScalarGt(intQuantsIn.volume, intQuantsEx.volume) THEN interiorDofIdx
            ELSE IF ScalarLt(intQuantsIn.volume, intQuantsEx.volume) THEN exteriorDofIdx
            ELSE IF intQuantsIn.globalIndex < intQuantsEx.globalIndex
                 THEN interiorDofIdx ELSE exteriorDofIdx
        result(pressureDifference) ==
            [upIdx |-> upIdx(pressureDifference), dnIdx |-> 1 - upIdx(pressureDifference),
             pressureDifference |-> pressureDifference]
    IN  result(cutOff(ScalarAdd(ScalarSub(intQuantsEx.pressure[phaseIdx],
                                          intQuantsIn.pressure[phaseIdx]), distZg)))

\* Adds the flux of the components a phase carries to the vector flux.
evalPhaseFluxes_(flux, phaseIdx, regionIdx, surfaceVolumeFlux, upFs) ==
    LET density(ph) == IF cfg.blackoilConserveSurfaceVolume THEN One
                       ELSE referenceDensity(ph, regionIdx)
        \* The flux of a component the phase holds in the ratio given.
        carried(f, enabled, compIdx, ratio) ==
            IF enabled
            THEN AddTo(f, compIdx,
                       ScalarMul(ScalarMul(ratio, surfaceVolumeFlux), density(compIdx)))
            ELSE f
        carriedOf(f0) ==
            CASE phaseIdx = "oil" -> carried(f0, cfg.enableDissolvedGas, "gas", upFs.Rs)
              [] phaseIdx = "water" ->
                    carried(f0, cfg.enableDissolvedGasInWater, "gas", upFs.Rsw)
              [] phaseIdx = "gas" ->
                    carried(carried(f0, cfg.enableVaporizedOil, "oil", upFs.Rv),
                            cfg.enableVaporizedWater, "water", upFs.Rvw)
    IN  carriedOf(AddTo(flux, solventComponentIndex(phaseIdx),
                        ScalarMul(surfaceVolumeFlux, density(phaseIdx))))

\* Converts surface volumes to the conservation quantities of the model.
adaptMassConservationQuantities_(container, regionIdx) ==
    IF cfg.blackoilConserveSurfaceVolume THEN container
    ELSE [compIdx \in Phases |->
            IF phaseIsActive(compIdx)
            THEN ScalarMul(container[compIdx], referenceDensity(compIdx, regionIdx))
            ELSE container[compIdx]]

\* The storage term of one cell.
RECURSIVE storageOfPhases(_, _, _)
storageOfPhases(storage, intQuantsCell, i) ==
    IF i > Len(PhaseOrder) THEN storage
    ELSE LET phaseIdx == PhaseOrder[i]
             \* The surface volume of a component the phase holds in the
             \* ratio given.
             held(s, enabled, compIdx, ratio, surfaceVolume) ==
                 IF enabled THEN AddTo(s, compIdx, ScalarMul(ratio, surfaceVolume)) ELSE s
             ofPhase(surfaceVolume) ==
                 held(held(held(held(AddTo(storage, solventComponentIndex(phaseIdx),
                                           surfaceVolume),
                                     phaseIdx = "oil" /\ cfg.enableDissolvedGas,
                                     "gas", intQuantsCell.Rs, surfaceVolume),
                                phaseIdx = "water" /\ cfg.enableDissolvedGasInWater,
                                "gas", intQuantsCell.Rsw, surfaceVolume),
                           phaseIdx = "gas" /\ cfg.enableVaporizedOil,
                           "oil", intQuantsCell.Rv, surfaceVolume),
                      phaseIdx = "gas" /\ cfg.enableVaporizedWater,
                      "water", intQuantsCell.Rvw, surfaceVolume)
         IN  storageOfPhases(
                 IF phaseIsActive(phaseIdx)
                 THEN ofPhase(ScalarMul(ScalarMul(intQuantsCell.saturation[phaseIdx],
                                                  intQuantsCell.invB[phaseIdx]),
                                        intQuantsCell.porosity))
                 ELSE storage,
                 intQuantsCell, i + 1)

\* computeStorage that leaves the storage in surface volumes.
computeStorageInSurfaceVolume(intQuantsCell) ==
    storageOfPhases(ZeroVector, intQuantsCell, 1)

computeStorage(intQuantsCell) ==
    adaptMassConservationQuantities_(storageOfPhases(ZeroVector, intQuantsCell, 1),
                                     intQuantsCell.pvtRegionIndex)

\* upwindCell with the interior cell taken as the upwind cell of every phase.
upwindCellAlwaysInterior(upIdx, intQuantsIn, intQuantsEx) == intQuantsIn

\* The cell the collaborator chose as the upwind cell of a phase.
upwindCell(upIdx, intQuantsIn, intQuantsEx) ==
    IF upIdx = interiorDofIdx THEN intQuantsIn ELSE intQuantsEx

\* The loop over the phases of calculateFluxes_, from the i-th phase on.
RECURSIVE calculateFluxes_(_, _, _, _, _, _, _, _)
calculateFluxes_(acc, intQuantsIn, intQuantsEx, distZg, thpres, trans, faceArea, i) ==
    IF i > Len(PhaseOrder) THEN acc
    ELSE LET phaseIdx == PhaseOrder[i]
             \* With the interior cell upwind the product is taken from the
             \* left; with the exterior cell upwind the pressure difference
             \* multiplies the product of the three values.
             darcyFlux(pressureDifference, up) ==
                 IF pressureDifference = Zero THEN Zero
                 ELSE IF up.globalIndex = intQuantsIn.globalIndex
                 THEN ScalarMul(ScalarMul(ScalarMul(pressureDifference,
                                                    up.mobility[phaseIdx]),
                                          up.rockCompTransMultiplier),
                                ScalarDiv(ScalarNeg(trans), faceArea))
                 ELSE ScalarMul(pressureDifference,
                                ScalarMul(ScalarMul(up.mobility[phaseIdx],
                                                    up.rockCompTransMultiplier),
                                          ScalarDiv(ScalarNeg(trans), faceArea)))
             added(up, flux) ==
                 [flux |-> evalPhaseFluxes_(acc.flux, phaseIdx, up.pvtRegionIndex,
                                            ScalarMul(up.invB[phaseIdx], flux), up),
                  darcy |-> [acc.darcy EXCEPT ![solventComponentIndex(phaseIdx)] =
                                 ScalarMul(flux, faceArea)]]
             ofUpwind(pressureDifference, up) ==
                 added(up, darcyFlux(pressureDifference, up))
             ofPhase(diff) ==
                 ofUpwind(diff.pressureDifference,
                          upwindCell(diff.upIdx, intQuantsIn, intQuantsEx))
         IN  calculateFluxes_(
                 IF phaseIsActive(phaseIdx)
                 THEN ofPhase(calculatePhasePressureDiff_(intQuantsIn, intQuantsEx,
                                                          phaseIdx, distZg, thpres))
                 ELSE acc,
                 intQuantsIn, intQuantsEx, distZg, thpres, trans, faceArea, i + 1)

\* computeFlux that takes the face to have unit area.
computeFluxOfUnitFace(intQuantsIn, intQuantsEx, trans, faceArea) ==
    calculateFluxes_([flux |-> ZeroVector, darcy |-> ZeroVector],
                     intQuantsIn, intQuantsEx, Zero, Zero, trans, One, 1)

\* The cells are at the same depth and the face has no threshold pressure.
computeFlux(intQuantsIn, intQuantsEx, trans, faceArea) ==
    calculateFluxes_([flux |-> ZeroVector, darcy |-> ZeroVector],
                     intQuantsIn, intQuantsEx, Zero, Zero, trans, faceArea, 1)

\* boundaryPhaseFlux with equal pressures treated as an outflux.
boundaryPhaseFluxOutOnTie(phaseIdx, exFluidState, insideIntQuants, volumeFlux) ==
    LET pBoundary == exFluidState.pressure[phaseIdx]
        pInside == insideIntQuants.pressure[phaseIdx]
    IN  IF ScalarLe(pBoundary, pInside)
        THEN evalPhaseFluxes_(DefaultRateVector, phaseIdx,
                              insideIntQuants.pvtRegionIndex,
                              ScalarMul(insideIntQuants.invB[phaseIdx], volumeFlux[phaseIdx]),
                              insideIntQuants)
        ELSE evalPhaseFluxes_(DefaultRateVector, phaseIdx,
                              insideIntQuants.pvtRegionIndex,
                              ScalarMul(exFluidState.invB[phaseIdx], volumeFlux[phaseIdx]),
                              exFluidState)

\* The vector tmp of one phase in computeBoundaryFluxFree.
boundaryPhaseFlux(phaseIdx, exFluidState, insideIntQuants, volumeFlux) ==
    LET pBoundary == exFluidState.pressure[phaseIdx]
        pInside == insideIntQuants.pressure[phaseIdx]
    IN  IF ScalarLt(pBoundary, pInside)
        THEN evalPhaseFluxes_(DefaultRateVector, phaseIdx,
                              insideIntQuants.pvtRegionIndex,
                              ScalarMul(insideIntQuants.invB[phaseIdx], volumeFlux[phaseIdx]),
                              insideIntQuants)
        ELSE IF ScalarGt(pBoundary, pInside)
        THEN evalPhaseFluxes_(DefaultRateVector, phaseIdx,
                              insideIntQuants.pvtRegionIndex,
                              ScalarMul(exFluidState.invB[phaseIdx], volumeFlux[phaseIdx]),
                              exFluidState)
        ELSE DefaultRateVector

\* The loop over the phases of computeBoundaryFluxFree, from the i-th on.
RECURSIVE boundaryFluxOfPhases(_, _, _, _, _)
boundaryFluxOfPhases(bdyFlux, exFluidState, insideIntQuants, volumeFlux, i) ==
    IF i > Len(PhaseOrder) THEN bdyFlux
    ELSE boundaryFluxOfPhases(
             IF phaseIsActive(PhaseOrder[i])
             THEN AddVector(bdyFlux, boundaryPhaseFlux(PhaseOrder[i], exFluidState,
                                                       insideIntQuants, volumeFlux))
             ELSE bdyFlux,
             exFluidState, insideIntQuants, volumeFlux, i + 1)

\* volumeFlux is what calculateBoundaryGradients_ reported for the phases.
computeBoundaryFluxFree(exFluidState, insideIntQuants, volumeFlux) ==
    adaptMassConservationQuantities_(
        boundaryFluxOfPhases(ZeroVector, exFluidState, insideIntQuants, volumeFlux, 1),
        insideIntQuants.pvtRegionIndex)

\* The types of boundary condition (BCType).
BCTypes == {"NONE", "RATE", "FREE", "DIRICHLET", "THERMAL"}

\* RateVector::setMassRate: the vector becomes the prescribed mass rate.
setMassRate(value, regionIdx) == value

computeBoundaryFluxRate(bdyInfo) == setMassRate(bdyInfo.massRate, bdyInfo.pvtRegionIdx)

\* computeBoundaryFlux with the DIRICHLET type left out of the dispatch.
computeBoundaryFluxNoDirichlet(bdyFlux, bdyInfo, insideIntQuants) ==
    IF bdyInfo.type = "RATE"
    THEN [bdyFlux |-> computeBoundaryFluxRate(bdyInfo), threw |-> FALSE]
    ELSE IF bdyInfo.type = "FREE"
    THEN [bdyFlux |-> computeBoundaryFluxFree(bdyInfo.exFluidState, insideIntQuants,
                                             bdyInfo.volumeFlux),
          threw |-> FALSE]
    ELSE [bdyFlux |-> bdyFlux, threw |-> TRUE]

\* The dispatch on the type of the boundary condition.  bdyFlux is the value
\* the caller's vector has before the call; volumeFlux is what the boundary
\* gradient collaborator reports for the face of bdyInfo.
computeBoundaryFlux(bdyFlux, bdyInfo, insideIntQuants) ==
    IF bdyInfo.type = "RATE"
    THEN [bdyFlux |-> computeBoundaryFluxRate(bdyInfo), threw |-> FALSE]
    ELSE IF bdyInfo.type = "FREE" \/ bdyInfo.type = "DIRICHLET"
    THEN [bdyFlux |-> computeBoundaryFluxFree(bdyInfo.exFluidState, insideIntQuants,
                                             bdyInfo.volumeFlux),
          threw |-> FALSE]
    ELSE [bdyFlux |-> bdyFlux, threw |-> TRUE]

(***************************************************************************)
(* Inputs.                                                                 *)
(***************************************************************************)
\* Values a Newton update writes into the water, gas, solvent or salt slot.
SatValues == {Rat(k, 2) : k \in (0 - 2)..MaxSatHalves}

\* Values written before chopAndNormalizeSaturations is exercised.
ChopValues == {Rat(k, 2) : k \in (0 - 2)..MaxChopHalves}

\* Saturations of water, gas and solvent a few units in the last place
\* above 5/16, 5/8 and 1/16 (2^-53 is 128 * 2^-60): their sum 1 + 13 * 2^-53
\* is not a double, so that the sum of the clamped saturations is rounded.
NearOneValues ==
    [water |-> <<5, 16, 384, 1>>, gas |-> <<5, 8, 384, 1>>,
     solvent |-> <<1, 16, 896, 1>>]

PressureValues == {Rat(k, 1) : k \in 1..MaxPressure}

\* Tolerances passed to adaptPrimaryVariables.
Tolerances == {Zero, Half}

\* Saturations (water, gas, oil) of the fluid states given to assignNaive.
FluidSaturations ==
    {<<One, Zero, Zero>>, <<Zero, One, Zero>>, <<Zero, Zero, One>>,
     <<Half, Half, Zero>>, <<Half, Zero, Half>>, <<Zero, Half, Half>>,
     <<Half, Rat(1, 4), Rat(1, 4)>>}

\* The saturations of inactive phases are not part of a fluid state.
FluidStates ==
    {[S |-> [water |-> IF cfg.waterEnabled THEN t[1] ELSE Zero,
             gas   |-> IF cfg.gasEnabled THEN t[2] ELSE Zero,
             oil   |-> IF cfg.oilEnabled THEN t[3] ELSE Zero],
      p |-> [water |-> One, gas |-> Rat(3, 1), oil |-> Rat(2, 1)],
      Rs |-> Half, Rv |-> Rat(1, 4), Rsw |-> Half, Rvw |-> Rat(1, 4),
      saltSaturation |-> salt] :
        t \in FluidSaturations,
        salt \in IF cfg.enableSaltPrecipitation THEN {Zero, Half} ELSE {Zero}}

Slots == {"water", "gas", "pressure", "solvent", "salt"}

\* A slot exists in the vector and is in use under the current tags.
slotInUse(slot) ==
    CASE slot = "water" -> primaryVarsMeaningWater \in {"Sw", "Rvw", "Rsw"}
      [] slot = "gas" -> primaryVarsMeaningGas \in {"Sg", "Rs", "Rv"}
      [] slot = "pressure" -> primaryVarsMeaningPressure \in {"Po", "Pg", "Pw"}
      [] slot = "solvent" -> cfg.enableSolvent /\ primaryVarsMeaningPressure # "Undefined"
      [] slot = "salt" -> primaryVarsMeaningBrine \in {"Cs", "Sp"}

InPressureRange(p) == ScalarGe(p, Zero) /\ ScalarLe(p, Rat(MaxPressure + 1, 1))

(***************************************************************************)
(* The state machine of one primary variable vector.                       *)
(***************************************************************************)
SetSelf(s) ==
    /\ pv' = s.v
    /\ primaryVarsMeaningWater' = s.mw
    /\ primaryVarsMeaningPressure' = s.mp
    /\ primaryVarsMeaningGas' = s.mg
    /\ primaryVarsMeaningBrine' = s.mb

\* The state after construction: the tags are undefined, the region is 0.
\* The processes of the run; each holds its own criterion object.
Processes == {0, 1}

\* WeightedResidReductionCriterion(comm) on every process: no weights; the
\* errors and the tolerance are not initialised; no process is in a call;
\* nothing is under way in the collective of comm_.
InitialCriterion ==
    [object |-> [proc \in Processes |->
                    [weightVec |-> <<>>, error |-> "undefined",
                     initialError |-> "undefined", tolerance |-> "undefined",
                     pc |-> "ready", curResid |-> <<>>]],
     comm |-> [sent |-> [proc \in Processes |-> "none"],
               received |-> [proc \in Processes |-> "none"]]]

InitWith(configs) ==
    /\ cfg \in configs
    /\ pv = [slot \in Slots |-> Zero]
    /\ primaryVarsMeaningWater = "Undefined"
    /\ primaryVarsMeaningPressure = "Undefined"
    /\ primaryVarsMeaningGas = "Undefined"
    /\ primaryVarsMeaningBrine = "Undefined"
    /\ pvtRegionIdx = 0
    /\ thresholdWaterFilledCell = <<>>
    /\ lastOp = "init"
    /\ ret = FALSE
    /\ fired = {}
    /\ assertFailed = FALSE
    /\ intQuants = InitialIntensiveQuantities
    /\ residual = [op |-> "none"]
    /\ checkpoint = [op |-> "none"]
    /\ criterion = InitialCriterion
    /\ newton = [pc |-> "unconstructed"]

Init == InitWith(Configs)

AssignNaive ==
    \E fs \in FluidStates :
        /\ SetSelf(assignNaive(Self, fs))
        /\ lastOp' = "assignNaive"
        /\ ret' = FALSE
        /\ fired' = {}
        /\ assertFailed' = FALSE
        /\ UNCHANGED <<cfg, pvtRegionIdx, thresholdWaterFilledCell, intQuants, residual, checkpoint,
                       criterion, newton>>

\* A Newton update (or any direct assignment) of one raw slot value.
UpdateSlotFrom(satValues) ==
    \E slot \in Slots :
        /\ slotInUse(slot)
        /\ \E x \in (IF slot = "pressure" THEN PressureValues ELSE satValues) :
               pv' = [pv EXCEPT ![slot] = x]
        /\ lastOp' = "update"
        /\ ret' = FALSE
        /\ fired' = {}
        /\ assertFailed' = FALSE
        /\ UNCHANGED <<cfg, primaryVarsMeaningWater, primaryVarsMeaningPressure,
                       primaryVarsMeaningGas, primaryVarsMeaningBrine,
                       pvtRegionIdx, thresholdWaterFilledCell, intQuants, residual, checkpoint,
                       criterion, newton>>

UpdateSlot == UpdateSlotFrom(SatValues)

\* Every switch of the pressure meaning moves the pressure slot by a
\* capillary pressure: the call is made on a vector whose pressure slot lies
\* in [0, MaxPressure + 1].
AdaptPrimaryVariables ==
    \E eps \in Tolerances :
        /\ primaryVarsMeaningPressure # "Undefined"
        /\ InPressureRange(pv.pressure)
        /\ \E threshold \in {staticThreshold(thresholdWaterFilledCell, eps)} :
            \E r \in {adaptPrimaryVariables(Self, eps, threshold)} :
                /\ thresholdWaterFilledCell' = threshold
                /\ SetSelf(r.s)
                /\ lastOp' = "adapt"
                /\ ret' = r.changed
                /\ fired' = r.fired
                /\ assertFailed' = r.af
                /\ UNCHANGED <<cfg, pvtRegionIdx, intQuants, residual, checkpoint,
                               criterion, newton>>

\* The values written that are sums of halves and quarters: they are added
\* without rounding.
WrittenValues ==
    \A slot \in {"water", "gas", "solvent"} : pv[slot] \in ChopValues \cup {Rat(1, 4)}

\* The saturation slots in use hold the saturations near 5/16, 5/8 and
\* 1/16.
NearOneWritten ==
    \A slot \in {"water", "gas", "solvent"} :
        slotInUse(slot) => pv[slot] = NearOneValues[slot]

\* The chopped values are ratios of the values written: to keep the values
\* finite, the chop is applied to written values and, call after call, to
\* the values the chop has just left.
ChopInputs == WrittenValues \/ NearOneWritten

ChopAndNormalizeSaturations ==
    /\ primaryVarsMeaningPressure # "Undefined"
    /\ ChopInputs \/ lastOp = "chop"
    /\ \E r \in {chopAndNormalizeSaturations(Self)} :
        /\ SetSelf(r.s)
        /\ lastOp' = "chop"
        /\ ret' = r.ret
        /\ fired' = r.fired
        /\ assertFailed' = r.af
        /\ UNCHANGED <<cfg, pvtRegionIdx, thresholdWaterFilledCell, intQuants, residual, checkpoint,
                       criterion, newton>>

Next ==
    \/ AssignNaive
    \/ UpdateSlot
    \/ AdaptPrimaryVariables

Spec == Init /\ [][Next]_vars

(***************************************************************************)
(* The specification of the switching cascades under Newton updates that   *)
(* overshoot: gas-water models and three-phase models with vaporized oil,  *)
(* slot values up to MaxOvershootHalves/2, so that two phases can          *)
(* disappear in the same call.                                             *)
(***************************************************************************)
OvershootValues == {Rat(k, 2) : k \in (0 - 1)..MaxOvershootHalves}

OvershootConfigs ==
    {c \in Configs : c.waterEnabled /\ c.gasEnabled
                        /\ (c.oilEnabled => c.enableVaporizedOil)
                        /\ ~c.enableSaltPrecipitation /\ ~c.enableSolvent}

InitOvershoot == InitWith(OvershootConfigs)

UpdateSlotOvershoot == UpdateSlotFrom(OvershootValues)

NextOvershoot ==
    \/ AssignNaive
    \/ UpdateSlotOvershoot
    \/ AdaptPrimaryVariables

SpecOvershoot == InitOvershoot /\ [][NextOvershoot]_vars

(***************************************************************************)
(* The specification of the local residual: the phase pressures of cell A *)
(* change between the calls of computeStorage, computeFlux and             *)
(* computeBoundaryFluxFree.  The optional modules are off.                 *)
(***************************************************************************)
ResidualConfigs ==
    {c \in ConfigFields :
        /\ ValidConfig(c)
        /\ ~c.enableSaltPrecipitation /\ ~c.enableSolvent
        /\ (c.enableDissolvedGas \/ c.enableVaporizedOil) =>
               (c.waterEnabled /\ c.enableDissolvedGas /\ c.enableVaporizedOil)
        /\ c.enableVaporizedWater <=> c.enableDissolvedGasInWater}

InitResidual ==
    /\ cfg \in ResidualConfigs
    /\ pv = [slot \in Slots |-> Zero]
    /\ primaryVarsMeaningWater = "Undefined"
    /\ primaryVarsMeaningPressure = "Undefined"
    /\ primaryVarsMeaningGas = "Undefined"
    /\ primaryVarsMeaningBrine = "Undefined"
    /\ pvtRegionIdx = 0
    /\ thresholdWaterFilledCell = <<>>
    /\ lastOp = "init"
    /\ ret = FALSE
    /\ fired = {}
    /\ assertFailed = FALSE
    /\ intQuants = InitialIntensiveQuantities
    /\ residual = [op |-> "none"]
    /\ checkpoint = [op |-> "none"]
    /\ criterion = InitialCriterion
    /\ newton = [pc |-> "unconstructed"]

residualUnchanged ==
    UNCHANGED <<cfg, pv, primaryVarsMeaningWater, primaryVarsMeaningPressure,
                primaryVarsMeaningGas, primaryVarsMeaningBrine, pvtRegionIdx,
                thresholdWaterFilledCell, lastOp, ret, fired, assertFailed,
                checkpoint, criterion, newton>>

\* The solution of cell A changes; the result of the last call is consumed.
UpdateIntensiveQuantities ==
    \E phaseIdx \in Phases, p \in FacePressures :
        /\ phaseIsActive(phaseIdx)
        /\ intQuants' = [intQuants EXCEPT !.A.pressure[phaseIdx] = p]
        /\ residual' = [op |-> "none"]
        /\ residualUnchanged

\* The assembler has added the result of the last call to the residual.
ResultConsumed == residual.op = "none"

ComputeStorage ==
    \E cell \in {"A", "B"} :
        /\ ResultConsumed
        /\ residual' = [op |-> "computeStorage", cell |-> cell,
                        storage |-> computeStorage(intQuants[cell])]
        /\ UNCHANGED intQuants
        /\ residualUnchanged

ComputeFlux ==
    \E interior \in {"A", "B"}, trans \in TransValues :
        \E r \in {computeFlux(intQuants[interior],
                              intQuants[IF interior = "A" THEN "B" ELSE "A"],
                              trans, scvfArea)} :
            /\ ResultConsumed
            /\ residual' = [op |-> "computeFlux", interior |-> interior,
                            trans |-> trans, flux |-> r.flux, darcy |-> r.darcy]
            /\ UNCHANGED intQuants
            /\ residualUnchanged

ComputeBoundaryFluxFree ==
    \E volumeFlux \in [Phases -> VolumeFluxValues] :
        /\ ResultConsumed
        /\ \A ph \in Phases : ~phaseIsActive(ph) => volumeFlux[ph] = Rat(2, 1)
        /\ residual' = [op |-> "computeBoundaryFluxFree", volumeFlux |-> volumeFlux,
                        bdyFlux |-> computeBoundaryFluxFree(intQuants.boundary,
                                                            intQuants.A, volumeFlux)]
        /\ UNCHANGED intQuants
        /\ residualUnchanged

\* Mass rates a RATE boundary condition prescribes.
MassRates ==
    {[compIdx \in Phases |-> One],
     [water |-> Rat(2, 1), oil |-> ScalarNeg(One), gas |-> Rat(3, 1)]}

\* Values the caller's vector may hold before computeBoundaryFlux.
PriorRateVectors == {ZeroVector, [compIdx \in Phases |-> Rat(7, 1)]}

\* The boundary conditions of the face of cell A: the boundary fluid state
\* with one of the types, a prescribed mass rate and the volume flux the
\* collaborator reports, the same for every phase.
\* A RATE condition needs no volume flux and the others no mass rate.
BoundaryConditions ==
    {bdyInfo \in
        {[type |-> type, massRate |-> massRate, pvtRegionIdx |-> 0,
          exFluidState |-> intQuants.boundary,
          volumeFlux |-> [ph \in Phases |-> vf]] :
            type \in BCTypes, massRate \in MassRates, vf \in VolumeFluxValues} :
        /\ bdyInfo.type = "RATE" => bdyInfo.volumeFlux["water"] = Rat(2, 1)
        /\ bdyInfo.type # "RATE" => bdyInfo.massRate["water"] = One}

\* The calls made: a type that is not handled is given a vector that is not
\* zero, one volume flux is enough for all types but FREE and one mass rate
\* for RATE.
ComputeBoundaryFlux ==
    \E bdyInfo \in BoundaryConditions, bdyFlux \in PriorRateVectors :
        /\ ResultConsumed
        /\ bdyInfo.type \in {"RATE", "FREE", "DIRICHLET"} <=> bdyFlux = ZeroVector
        /\ bdyInfo.type # "FREE" => bdyInfo.volumeFlux["water"] = Rat(2, 1)
        /\ bdyInfo.type = "RATE" => bdyInfo.massRate["water"] # One
        /\ \E r \in {computeBoundaryFlux(bdyFlux, bdyInfo, intQuants.A)} :
               residual' = [op |-> "computeBoundaryFlux", type |-> bdyInfo.type,
                            massRate |-> bdyInfo.massRate,
                            volumeFlux |-> bdyInfo.volumeFlux,
                            threw |-> r.threw, bdyFlux |-> r.bdyFlux]
        /\ UNCHANGED intQuants
        /\ residualUnchanged

NextResidual ==
    \/ UpdateIntensiveQuantities
    \/ ComputeStorage
    \/ ComputeFlux
    \/ ComputeBoundaryFluxFree
    \/ ComputeBoundaryFlux

SpecResidual == InitResidual /\ [][NextResidual]_vars

(***************************************************************************)
(* Serialization.  The object is the raw value array, the four tags and   *)
(* the region index.  A serializer visits the fields handed to it in the  *)
(* order of serializeOp: when packing it appends their encoding to its    *)
(* buffer, when unpacking it reads them back from the buffer.  A scalar   *)
(* is stored as one word that holds the double, a tag as the value of     *)
(* its enumerator and the region index as the two bytes of an unsigned    *)
(* short.                                                                  *)
(***************************************************************************)
\* The slots of the raw array by index.
SlotOrder == <<"water", "pressure", "gas", "solvent", "salt">>

\* The enumerators of the meanings, in declaration order (values 0, 1, ...).
WaterMeaning == <<"Sw", "Rvw", "Rsw", "Disabled">>
PressureMeaning == <<"Po", "Pg", "Pw">>
GasMeaning == <<"Sg", "Rs", "Rv", "Disabled">>
BrineMeaning == <<"Cs", "Sp", "Disabled">>

\* unsignedShort keeping eight bits.
unsignedChar(value) == value % 256

\* static_cast<unsigned short>(value)
unsignedShort(value) == value % 65536

This ==
    [v  |-> pv,
     mw |-> primaryVarsMeaningWater,
     mp |-> primaryVarsMeaningPressure,
     mg |-> primaryVarsMeaningGas,
     mb |-> primaryVarsMeaningBrine,
     pvtRegionIdx |-> pvtRegionIdx]

\* A default-constructed object: values and tags are undefined, region 0.
DefaultObject ==
    [v  |-> [slot \in Slots |-> "undefined"],
     mw |-> "Undefined", mp |-> "Undefined", mg |-> "Undefined",
     mb |-> "Undefined", pvtRegionIdx |-> 0]

serializationTestObject ==
    [v  |-> [slot \in Slots |->
                Rat(CHOOSE i \in 1..Len(SlotOrder) : SlotOrder[i] = slot, 1)],
     mw |-> "Rsw", mp |-> "Pg", mg |-> "Rv", mb |-> "Sp",
     pvtRegionIdx |-> 1]

enumValue(enumerators, tag) ==
    (CHOOSE i \in 1..Len(enumerators) : enumerators[i] = tag) - 1

enumOf(enumerators, value) == enumerators[value + 1]

\* serializer(x) for a scalar, an enumeration and an unsigned short: the
\* serializer ser is [packing, buffer, pos]; the result is the serializer
\* after the visit and the value the field holds after it.
visitScalar(ser, x) ==
    IF ser.packing
    THEN [ser |-> [ser EXCEPT !.buffer = Append(@, x)], x |-> x]
    ELSE [ser |-> [ser EXCEPT !.pos = @ + 1], x |-> ser.buffer[ser.pos]]

visitEnum(ser, enumerators, x) ==
    IF ser.packing
    THEN [ser |-> [ser EXCEPT !.buffer = Append(@, enumValue(enumerators, x))],
          x |-> x]
    ELSE [ser |-> [ser EXCEPT !.pos = @ + 1],
          x |-> enumOf(enumerators, ser.buffer[ser.pos])]

visitUnsignedShort(ser, x) ==
    IF ser.packing
    THEN [ser |-> [ser EXCEPT !.buffer = @ \o <<x % 256, x \div 256>>], x |-> x]
    ELSE [ser |-> [ser EXCEPT !.pos = @ + 2],
          x |-> ser.buffer[ser.pos] + 256 * ser.buffer[ser.pos + 1]]

\* serializer(static_cast<FV&>(*this)): the slots in index order.
RECURSIVE visitFieldVector(_, _, _)
visitFieldVector(ser, v, i) ==
    IF i > Len(SlotOrder) THEN [ser |-> ser, x |-> v]
    ELSE LET r == visitScalar(ser, v[SlotOrder[i]])
         IN  visitFieldVector(r.ser, [v EXCEPT ![SlotOrder[i]] = r.x], i + 1)

serializeOpWithoutRegion(obj, serializer) ==
    LET fv == visitFieldVector(serializer, obj.v, 1)
        mw == visitEnum(fv.ser, WaterMeaning, obj.mw)
        mp == visitEnum(mw.ser, PressureMeaning, obj.mp)
        mg == visitEnum(mp.ser, GasMeaning, obj.mg)
        mb == visitEnum(mg.ser, BrineMeaning, obj.mb)
    IN  [ser |-> mb.ser,
         obj |-> [v |-> fv.x, mw |-> mw.x, mp |-> mp.x, mg |-> mg.x, mb |-> mb.x,
                  pvtRegionIdx |-> obj.pvtRegionIdx]]

serializeOp(obj, serializer) ==
    LET fv == visitFieldVector(serializer, obj.v, 1)
        mw == visitEnum(fv.ser, WaterMeaning, obj.mw)
        mp == visitEnum(mw.ser, PressureMeaning, obj.mp)
        mg == visitEnum(mp.ser, GasMeaning, obj.mg)
        mb == visitEnum(mg.ser, BrineMeaning, obj.mb)
        region == visitUnsignedShort(mb.ser, obj.pvtRegionIdx)
    IN  [ser |-> region.ser,
         obj |-> [v |-> fv.x, mw |-> mw.x, mp |-> mp.x, mg |-> mg.x, mb |-> mb.x,
                  pvtRegionIdx |-> region.x]]

\* Serializer::pack(obj) and Serializer::unpack(obj).
pack(obj) == serializeOp(obj, [packing |-> TRUE, buffer |-> <<>>, pos |-> 1]).ser.buffer

unpack(buffer) ==
    serializeOp(DefaultObject, [packing |-> FALSE, buffer |-> buffer, pos |-> 1]).obj

\* operator==
operatorEq(lhs, rhs) ==
    /\ \A slot \in Slots : lhs.v[slot] = rhs.v[slot]
    /\ lhs.mw = rhs.mw
    /\ lhs.mp = rhs.mp
    /\ lhs.mg = rhs.mg
    /\ lhs.mb = rhs.mb
    /\ lhs.pvtRegionIdx = rhs.pvtRegionIdx

\* The model whose objects are serialized: every slot exists.
SerializeConfigs ==
    {c \in Configs : c.waterEnabled /\ c.gasEnabled /\ c.oilEnabled /\ c.enableSolvent}

\* Values given to setPvtRegionIndex and written to the slots.
RegionIndexValues == {65535, 65536}
SerializedSlotValues == {ScalarNeg(Half)}

InitSerialize == InitWith(SerializeConfigs)

serializeUnchanged ==
    UNCHANGED <<cfg, thresholdWaterFilledCell, lastOp, ret, fired, assertFailed,
                intQuants, residual, criterion, newton>>

SerializationTestObject ==
    /\ SetSelf(serializationTestObject)
    /\ pvtRegionIdx' = serializationTestObject.pvtRegionIdx
    /\ checkpoint' = [op |-> "none"]
    /\ serializeUnchanged

SetPrimaryVarsMeaningWater ==
    \E newMeaning \in {WaterMeaning[i] : i \in 1..Len(WaterMeaning)} :
        /\ primaryVarsMeaningWater' = newMeaning
        /\ checkpoint' = [op |-> "none"]
        /\ UNCHANGED <<pv, primaryVarsMeaningPressure, primaryVarsMeaningGas,
                       primaryVarsMeaningBrine, pvtRegionIdx>>
        /\ serializeUnchanged

SetPrimaryVarsMeaningPressure ==
    \E newMeaning \in {PressureMeaning[i] : i \in 1..Len(PressureMeaning)} :
        /\ primaryVarsMeaningPressure' = newMeaning
        /\ checkpoint' = [op |-> "none"]
        /\ UNCHANGED <<pv, primaryVarsMeaningWater, primaryVarsMeaningGas,
                       primaryVarsMeaningBrine, pvtRegionIdx>>
        /\ serializeUnchanged

SetPrimaryVarsMeaningGas ==
    \E newMeaning \in {GasMeaning[i] : i \in 1..Len(GasMeaning)} :
        /\ primaryVarsMeaningGas' = newMeaning
        /\ checkpoint' = [op |-> "none"]
        /\ UNCHANGED <<pv, primaryVarsMeaningWater, primaryVarsMeaningPressure,
                       primaryVarsMeaningBrine, pvtRegionIdx>>
        /\ serializeUnchanged

SetPrimaryVarsMeaningBrine ==
    \E newMeaning \in {BrineMeaning[i] : i \in 1..Len(BrineMeaning)} :
        /\ primaryVarsMeaningBrine' = newMeaning
        /\ checkpoint' = [op |-> "none"]
        /\ UNCHANGED <<pv, primaryVarsMeaningWater, primaryVarsMeaningPressure,
                       primaryVarsMeaningGas, pvtRegionIdx>>
        /\ serializeUnchanged

SetPvtRegionIndex ==
    \E value \in RegionIndexValues :
        /\ pvtRegionIdx' = unsignedShort(value)
        /\ checkpoint' = [op |-> "none"]
        /\ UNCHANGED <<pv, primaryVarsMeaningWater, primaryVarsMeaningPressure,
                       primaryVarsMeaningGas, primaryVarsMeaningBrine>>
        /\ serializeUnchanged

\* (*this)[i] = value, the assignment to one element
AssignSlot ==
    \E slot \in Slots, value \in SerializedSlotValues :
        /\ pv' = [pv EXCEPT ![slot] = value]
        /\ checkpoint' = [op |-> "none"]
        /\ UNCHANGED <<primaryVarsMeaningWater, primaryVarsMeaningPressure,
                       primaryVarsMeaningGas, primaryVarsMeaningBrine, pvtRegionIdx>>
        /\ serializeUnchanged

\* operator=(Scalar value): for (i < numEq) (*this)[i] = value
OperatorAssign ==
    \E value \in SerializedSlotValues :
        /\ pv' = [slot \in DOMAIN pv |-> value]
        /\ checkpoint' = [op |-> "none"]
        /\ UNCHANGED <<primaryVarsMeaningWater, primaryVarsMeaningPressure,
                       primaryVarsMeaningGas, primaryVarsMeaningBrine, pvtRegionIdx>>
        /\ serializeUnchanged

\* Every field of the object packed is defined.
Defined ==
    /\ primaryVarsMeaningWater # "Undefined"
    /\ primaryVarsMeaningPressure # "Undefined"
    /\ primaryVarsMeaningGas # "Undefined"
    /\ primaryVarsMeaningBrine # "Undefined"

Pack ==
    /\ Defined
    /\ checkpoint.op = "none"
    /\ checkpoint' = [op |-> "pack", buffer |-> pack(This)]
    /\ UNCHANGED pvVars
    /\ serializeUnchanged

Unpack ==
    /\ checkpoint.op = "pack"
    /\ checkpoint' = [op |-> "unpack", buffer |-> checkpoint.buffer,
                      restored |-> unpack(checkpoint.buffer)]
    /\ UNCHANGED pvVars
    /\ serializeUnchanged

NextSerialize ==
    \/ SerializationTestObject
    \/ SetPrimaryVarsMeaningWater
    \/ SetPrimaryVarsMeaningPressure
    \/ SetPrimaryVarsMeaningGas
    \/ SetPrimaryVarsMeaningBrine
    \/ SetPvtRegionIndex
    \/ AssignSlot
    \/ OperatorAssign
    \/ Pack
    \/ Unpack

SpecSerialize == InitSerialize /\ [][NextSerialize]_vars

(***************************************************************************)
(* The specification of the saturation chop: direct assignments of slot    *)
(* values followed by chopAndNormalizeSaturations.                         *)
(***************************************************************************)
UpdateSlotChop == UpdateSlotFrom(ChopValues)

\* A Newton update writes the saturations near 5/16, 5/8 and 1/16 into the
\* water, gas and solvent slots in use.
UpdateSlotNearOne ==
    /\ \E slot \in {"water", "gas", "solvent"} : slotInUse(slot)
    /\ pv' = [slot \in Slots |->
                 IF slot \in {"water", "gas", "solvent"} /\ slotInUse(slot)
                 THEN NearOneValues[slot] ELSE pv[slot]]
    /\ lastOp' = "update"
    /\ ret' = FALSE
    /\ fired' = {}
    /\ assertFailed' = FALSE
    /\ UNCHANGED <<cfg, primaryVarsMeaningWater, primaryVarsMeaningPressure,
                   primaryVarsMeaningGas, primaryVarsMeaningBrine,
                   pvtRegionIdx, thresholdWaterFilledCell, intQuants, residual, checkpoint,
                   criterion, newton>>

NextChop ==
    \/ AssignNaive
    \/ UpdateSlotChop
    \/ UpdateSlotNearOne
    \/ ChopAndNormalizeSaturations

SpecChop == Init /\ [][NextChop]_vars

(***************************************************************************)
(* The saturation chop of a vector whose PVT region index is set: the      *)
(* steps of SpecChop and calls of setPvtRegionIndex.                       *)
(***************************************************************************)
NextChopRegion ==
    \/ SetPvtRegionIndex
    \/ AssignNaive
    \/ UpdateSlotChop
    \/ UpdateSlotNearOne
    \/ ChopAndNormalizeSaturations

SpecChopRegion == Init /\ [][NextChopRegion]_vars

(***************************************************************************)
(* The specification of the PVT region index: setPvtRegionIndex is called  *)
(* between assignNaive, direct assignments of slot values,                 *)
(* adaptPrimaryVariables and chopAndNormalizeSaturations.                  *)
(***************************************************************************)
\* The three-phase models without solvent, salt and water exchange.
RegionConfigs ==
    {c \in Configs : c.waterEnabled /\ c.gasEnabled /\ c.oilEnabled
                        /\ ~c.enableSolvent /\ ~c.enableSaltPrecipitation
                        /\ ~c.enableVaporizedWater /\ ~c.enableDissolvedGasInWater}

\* Slot values below 0 and above 1.
RegionSlotValues == {ScalarNeg(Half), Rat(3, 2)}

NextRegion ==
    \/ SetPvtRegionIndex
    \/ AssignNaive
    \/ UpdateSlotFrom(RegionSlotValues)
    \/ AdaptPrimaryVariables
    \/ ChopAndNormalizeSaturations

SpecRegion == InitWith(RegionConfigs) /\ [][NextRegion]_vars

(***************************************************************************)
(* WeightedResidReductionCriterion.  Every process holds its own object,   *)
(* with the rows of the weight vector that belong to it, and is given the  *)
(* rows of the residual that belong to it; a vector is given per equation  *)
(* (outer index, inner index), and an empty weight vector is <<>>.  The    *)
(* processes meet in the collective comm_.max: a process that has called   *)
(* it waits until every process has called it.  comm.sent holds the values *)
(* of the processes that wait, comm.received the maximum handed to a       *)
(* process that has not yet gone on.                                       *)
(***************************************************************************)
\* The entries [i][j] of a vector, in the order of the loops.
EquationOrder == <<<<0, 0>>, <<0, 1>>>>
Equations == {EquationOrder[k] : k \in 1..Len(EquationOrder)}

\* The double 1e-20 of std::max(error_, 1e-20): 0x1.79ca10c924223p-67
initialErrorFloor == <<99035203, 9585187, -119>>

weight(weightVec, eq) ==
    IF weightVec = <<>> THEN One ELSE weightVec[eq]

\* The loops of updateError_, from entry k on.
RECURSIVE localError(_, _, _, _)
localError(weightVec, curResid, k, error) ==
    IF k > Len(EquationOrder) THEN error
    ELSE localError(weightVec, curResid, k + 1,
             ScalarMax(error, ScalarMul(weight(weightVec, EquationOrder[k]),
                              ScalarAbs(curResid[EquationOrder[k]]))))

\* comm_.max(error_): the largest of the values of the processes.
commMax(errors) ==
    CHOOSE e \in {errors[proc] : proc \in Processes} :
        \A proc \in Processes : ScalarLe(errors[proc], e)

\* updateError_ on process proc, called by caller, up to the wait in
\* comm_.max: error_ holds the maximum of the process; when the process is
\* the last to call comm_.max, the maximum of all is handed to every process.
updateError_(crit, proc, caller, curResid) ==
    LET error == localError(crit.object[proc].weightVec, curResid, 1, Zero)
        object == [crit.object EXCEPT ![proc].error = error,
                                      ![proc].pc = caller,
                                      ![proc].curResid = curResid]
        sent == [crit.comm.sent EXCEPT ![proc] = error]
    IN  IF \A other \in Processes : sent[other] # "none"
        THEN [object |-> object,
              comm |-> [sent |-> [other \in Processes |-> "none"],
                        received |-> [other \in Processes |-> commMax(sent)]]]
        ELSE [object |-> object,
              comm |-> [crit.comm EXCEPT !.sent = sent]]

setInitial(crit, proc, curResid) == updateError_(crit, proc, "setInitial", curResid)

update(crit, proc, curResid) == updateError_(crit, proc, "update", curResid)

\* Process proc goes on after comm_.max: error_ = comm_.max(error_), and in
\* setInitial error_ = std::max(error_, 1e-20); initialError_ = error_.
commMaxReturns(crit, proc) ==
    LET old == crit.object[proc]
        error == IF old.pc = "setInitial"
                 THEN ScalarMax(crit.comm.received[proc], initialErrorFloor)
                 ELSE crit.comm.received[proc]
        new == [old EXCEPT !.error = error,
                           !.initialError = IF old.pc = "setInitial" THEN error ELSE @,
                           !.pc = "ready",
                           !.curResid = <<>>]
    IN  [object |-> [crit.object EXCEPT ![proc] = new],
         comm |-> [crit.comm EXCEPT !.received[proc] = "none"]]

\* Inputs: residuals, weights and tolerances.
ResidValues == {ScalarNeg(Rat(2, 1)), Zero, One}
WeightValues == {ScalarNeg(One), Rat(2, 1)}
Residuals ==
    {curResid \in [Equations -> ResidValues] :
        curResid[<<0, 0>>] # One /\ curResid[<<0, 1>>] # ScalarNeg(Rat(2, 1))}
WeightVectors ==
    {weightVec \in [Equations -> WeightValues] :
        weightVec[<<0, 0>>] = weightVec[<<0, 1>>]}

InitCriterion ==
    InitWith({c \in Configs : c.waterEnabled /\ c.gasEnabled /\ c.oilEnabled
                                /\ c.enableSolvent})

criterionUnchanged ==
    UNCHANGED <<cfg, pvVars, thresholdWaterFilledCell, lastOp, ret, fired,
                assertFailed, intQuants, residual, checkpoint, newton>>

\* A process that waits in comm_.max calls nothing.
Ready(proc) == criterion.object[proc].pc = "ready"

SetWeight ==
    \E proc \in Processes, weightVec \in WeightVectors :
        /\ Ready(proc)
        /\ criterion' = [criterion EXCEPT !.object[proc].weightVec = weightVec]
        /\ criterionUnchanged

SetTolerance ==
    \E proc \in Processes, tol \in {Half} :
        /\ Ready(proc)
        /\ criterion' = [criterion EXCEPT !.object[proc].tolerance = tol]
        /\ criterionUnchanged

SetInitial ==
    \E proc \in Processes, curResid \in Residuals :
        /\ Ready(proc)
        /\ criterion' = setInitial(criterion, proc, curResid)
        /\ criterionUnchanged

Update ==
    \E proc \in Processes, curResid \in Residuals :
        /\ Ready(proc)
        /\ criterion' = update(criterion, proc, curResid)
        /\ criterionUnchanged

CommMaxReturns ==
    \E proc \in Processes :
        /\ criterion.comm.received[proc] # "none"
        /\ criterion' = commMaxReturns(criterion, proc)
        /\ criterionUnchanged

NextCriterion ==
    \/ SetWeight
    \/ SetTolerance
    \/ SetInitial
    \/ Update
    \/ CommMaxReturns

SpecCriterion == InitCriterion /\ [][NextCriterion]_vars

(***************************************************************************)
(* NewtonMethod::execute, one call of it on a constructed method.  The     *)
(* record `newton` holds the members of the method (tolerance, maxIter,    *)
(* minDt, goodIter), the time-step size of the local Jacobian, the number  *)
(* u of Newton updates applied to the solution of the old time step, the   *)
(* locals of the call (dt, divided, outerError, error, iter) and its       *)
(* position pc.  dt0, failed and steps record the time-step size at the    *)
(* start of the call, the failed attempts and the Newton iterations run.   *)
(***************************************************************************)
\* Largest maxIter and goodIter given to the constructor.
MaxNewtonIter == 2
\* The time-step size at the start of a call is at most 2^MaxDtExponent.
MaxDtExponent == 2

\* double error = 1e100, of the call and of every attempt: the double
\* 0x1.249ad2594c37dp+332
initialError == <<76704585, 26526589, 280>>

NewtonTolerances == {Half, One, initialError}
NewtonMinDt == One
ErrorValues == {Zero, One, Rat(2, 1)}
TimeStepSizes == {Half} \cup {Rat(2 ^ k, 1) : k \in 0..MaxDtExponent}

\* while (dt > minDt && error > tolerance), on the error of the call.
continueExecute(dt, minDt, error, tolerance) ==
    ScalarGt(dt, minDt) /\ ScalarGt(error, tolerance)

\* while (error > tolerance && iter < maxIter), on the error of the attempt.
continueAttempt(error, tolerance, iter, maxIter) ==
    ScalarGt(error, tolerance) /\ iter < maxIter

\* The defect of a Newton step; 1e100 when a saturation leaves [-1, 2].
defect(norm, inRange) == IF inRange THEN norm ELSE initialError

\* reducedDt that divides the time-step size by four.
reducedDtByFour(dt) == ScalarMul(Rat(1, 4), dt)

\* dt = 0.5*dt
reducedDt(dt) == ScalarMul(Half, dt)

\* mayDouble that does not look at earlier halvings.
mayDoubleAfterHalving(divided, iter, goodIter) == iter < goodIter

\* if (!divided && iter < goodIter)
mayDouble(divided, iter, goodIter) == ~divided /\ iter < goodIter

\* belowMinimum with a strict comparison.
belowMinimumStrict(dt, minDt) == ScalarLt(dt, minDt)

\* if (dt <= minDt) DUNE_THROW(MathError, ...)
belowMinimum(dt, minDt) == ScalarLe(dt, minDt)

InitNewton == InitWith({c \in Configs : c.waterEnabled /\ c.gasEnabled /\ c.oilEnabled
                                       /\ c.enableSolvent})

newtonUnchanged ==
    UNCHANGED <<cfg, pvVars, thresholdWaterFilledCell, lastOp, ret, fired,
                assertFailed, intQuants, residual, checkpoint, criterion>>

\* The constructor, on a local Jacobian with some time-step size.
NewtonMethod ==
    \E tol \in NewtonTolerances, maxIt \in 0..MaxNewtonIter,
       goodIt \in 1..MaxNewtonIter, dt \in TimeStepSizes :
        /\ newton.pc = "unconstructed"
        /\ newton' = [pc |-> "constructed", tolerance |-> tol, maxIter |-> maxIt,
                      minDt |-> NewtonMinDt, goodIter |-> goodIt,
                      localJacobianDt |-> dt, u |-> 0]
        /\ newtonUnchanged

\* The declarations at the start of execute.
Execute ==
    /\ newton.pc = "constructed"
    /\ newton' = [pc |-> "while", tolerance |-> newton.tolerance,
                  maxIter |-> newton.maxIter, minDt |-> newton.minDt,
                  goodIter |-> newton.goodIter,
                  localJacobianDt |-> newton.localJacobianDt, u |-> newton.u,
                  dt |-> newton.localJacobianDt, divided |-> FALSE,
                  outerError |-> initialError, error |-> initialError, iter |-> 0,
                  dt0 |-> newton.localJacobianDt, failed |-> 0, steps |-> 0]
    /\ newtonUnchanged

\* The outer loop test holds: a new attempt starts with its own error.
StartAttempt ==
    /\ newton.pc = "while"
    /\ continueExecute(newton.dt, newton.minDt, newton.outerError, newton.tolerance)
    /\ newton' = [newton EXCEPT !.pc = "attempt", !.error = initialError, !.iter = 0]
    /\ newtonUnchanged

\* The outer loop test fails.
LeaveLoop ==
    /\ newton.pc = "while"
    /\ ~continueExecute(newton.dt, newton.minDt, newton.outerError, newton.tolerance)
    /\ newton' = [newton EXCEPT !.pc = "afterLoop"]
    /\ newtonUnchanged

\* One Newton iteration: assemble, solve, update u, measure the defect.
NewtonStep ==
    \E norm \in ErrorValues, inRange \in BOOLEAN :
        /\ newton.pc = "attempt"
        /\ continueAttempt(newton.error, newton.tolerance, newton.iter, newton.maxIter)
        /\ newton' = [newton EXCEPT !.iter = @ + 1, !.u = @ + 1,
                                    !.error = defect(norm, inRange),
                                    !.steps = @ + 1]
        /\ newtonUnchanged

\* The attempt did not converge: halve the time-step size and start over
\* from the solution of the old time step.
FailedAttempt ==
    /\ newton.pc = "attempt"
    /\ ~continueAttempt(newton.error, newton.tolerance, newton.iter, newton.maxIter)
    /\ ScalarGt(newton.error, newton.tolerance)
    /\ newton' = [newton EXCEPT !.pc = "while", !.dt = reducedDt(@),
                                !.localJacobianDt = reducedDt(newton.dt),
                                !.u = 0, !.divided = TRUE, !.failed = @ + 1]
    /\ newtonUnchanged

\* The attempt converged: double the time-step size after few iterations
\* and return.
ConvergedAttempt ==
    /\ newton.pc = "attempt"
    /\ ~continueAttempt(newton.error, newton.tolerance, newton.iter, newton.maxIter)
    /\ ~ScalarGt(newton.error, newton.tolerance)
    /\ LET dt == IF mayDouble(newton.divided, newton.iter, newton.goodIter)
                 THEN ScalarMul(Rat(2, 1), newton.dt) ELSE newton.dt
       IN  newton' = [newton EXCEPT !.pc = "returned", !.dt = dt,
                                    !.localJacobianDt = dt]
    /\ newtonUnchanged

\* After the outer loop: MathError for a time-step size below the minimum.
AfterLoop ==
    /\ newton.pc = "afterLoop"
    /\ newton' = [newton EXCEPT !.pc = IF belowMinimum(newton.dt, newton.minDt)
                                       THEN "MathError" ELSE "returned"]
    /\ newtonUnchanged

NextNewton ==
    \/ NewtonMethod
    \/ Execute
    \/ StartAttempt
    \/ LeaveLoop
    \/ NewtonStep
    \/ FailedAttempt
    \/ ConvergedAttempt
    \/ AfterLoop

SpecNewton == InitNewton /\ [][NextNewton]_vars

\* Every step of the call is taken eventually: assemble and solve terminate.
SpecNewtonLive == SpecNewton /\ WF_vars(NextNewton)

(***************************************************************************)
(* Properties of adaptPrimaryVariables.  In a reachable state, AdaptCall   *)
(* is the call the cell would make next with tolerance eps, under the      *)
(* value the static threshold has during that call.                        *)
(***************************************************************************)
Initialised == primaryVarsMeaningPressure # "Undefined"

AdaptCall(eps) ==
    adaptPrimaryVariables(Self, eps, staticThreshold(thresholdWaterFilledCell, eps))

\* C1: a call of adaptPrimaryVariables returns true exactly when it changed
\* one of the four meaning tags (water, gas, pressure, brine).
C1_ReturnsTrueIffTagChanged ==
    Initialised =>
        \A eps \in Tolerances :
            LET r == AdaptCall(eps)
            IN  r.changed <=> (Tags(r.s) # Tags(Self))

\* C2: a second call with the same tolerance, made right after a first call
\* with no slot written in between, returns false and changes nothing.
C2_SecondCallChangesNothing ==
    Initialised =>
        \A eps \in Tolerances :
            LET threshold == staticThreshold(thresholdWaterFilledCell, eps)
                first == adaptPrimaryVariables(Self, eps, threshold)
                second == adaptPrimaryVariables(first.s, eps, threshold)
            IN  second.changed = FALSE /\ second.s = first.s

\* C3: the water-filled shortcut is taken exactly when the water saturation
\* read from the cell is >= 1 - tolerance of this call and dissolved gas in
\* water is not modelled, whatever tolerance earlier calls were given.
C3_ShortcutUsesToleranceOfTheCall ==
    Initialised =>
        \A eps \in Tolerances :
            LET r == AdaptCall(eps)
            IN  ("waterFilled" \in r.fired) <=>
                    (ScalarGe(readSw(Self), ScalarSub(One, eps)) /\ ~cfg.enableDissolvedGasInWater)

\* C4: when the water saturation is >= 1 - tolerance and dissolved gas in
\* water is not modelled, the call sets the water slot to 1, the gas slot to
\* 0 and the gas meaning to Sg, takes no other transition of the water and
\* gas cascades, and returns true exactly when the gas meaning was not Sg.
C4_WaterFilledShortcut ==
    Initialised =>
        \A eps \in Tolerances :
            (ScalarGe(readSw(Self), ScalarSub(One, eps)) /\ ~cfg.enableDissolvedGasInWater) =>
                LET r == AdaptCall(eps)
                IN  /\ r.s.v.water = One
                    /\ r.s.v.gas = Zero
                    /\ r.s.mg = "Sg"
                    /\ r.fired \subseteq {"waterFilled", "Sp2Cs", "Cs2Sp"}
                    /\ r.changed <=> (primaryVarsMeaningGas # "Sg")

\* The case of C5: water meaning Sw, pressure meaning Pg, sg < -eps, sw > eps
\* and dissolved gas in water supported.
GasPhaseDisappears(eps) ==
    /\ primaryVarsMeaningWater = "Sw"
    /\ primaryVarsMeaningPressure = "Pg"
    /\ ScalarLt(readSg(Self), ScalarNeg(eps))
    /\ ScalarGt(readSw(Self), eps)
    /\ cfg.enableDissolvedGasInWater

\* C5: gas-phase disappearance switches the water meaning to Rsw and the
\* pressure meaning from Pg to Pw in the same call; the pressure slot becomes
\* pw = pg + (pc_water - pc_gas), the water slot the saturated gas dissolution
\* factor at that pw, and the call returns true.
C5_GasPhaseDisappearance ==
    Initialised =>
        \A eps \in Tolerances :
            GasPhaseDisappears(eps) =>
                LET r == AdaptCall(eps)
                    sw == pv["water"]
                    pg == pv["pressure"]
                    pcWater == IF ScalarGt(sw, Half) THEN ScalarNeg(One)
                               ELSE ScalarNeg(Rat(2, 1))
                    pcGas == Zero
                    pw == ScalarAdd(pg, ScalarSub(pcWater, pcGas))
                IN  /\ r.s.mw = "Rsw"
                    /\ r.s.mp = "Pw"
                    /\ r.s.v.pressure = pw
                    /\ r.s.v.water = ScalarMul(pw, Rat(1, 4))
                    /\ r.changed

\* Reached: the transition Sw -> Rsw was taken from gas pressure.
C5_Witness ==
    /\ lastOp = "adapt"
    /\ "Sw2Rsw" \in fired
    /\ ~assertFailed
    /\ ret
    /\ primaryVarsMeaningWater = "Rsw"
    /\ primaryVarsMeaningPressure = "Pw"

(***************************************************************************)
(* Properties of chopAndNormalizeSaturations, checked under SpecChop.      *)
(***************************************************************************)
In01(x) == ScalarLe(Zero, x) /\ ScalarLe(x, One)

\* The doubles -2^-52, 1 - 2^-52 and 1 + 2^-52 (DBL_EPSILON is 2^-52), and
\* what lies within 2^-52 of 1
MinusEpsilon == <<0, 1, -256, 1>>
OneMinusEpsilon == <<1, 1, -256, 1>>
OnePlusEpsilon == <<1, 1, 256, 1>>
NearOne(x) == ScalarLe(OneMinusEpsilon, x) /\ ScalarLe(x, OnePlusEpsilon)

\* The double -2^-50, and what lies within 2^-50 of 1
MinusFourEpsilon == <<0, 1, -1024, 1>>
WithinFourEpsilonOfOne(x) ==
    ScalarLe(<<1, 1, -1024, 1>>, x) /\ ScalarLe(x, <<1, 1, 1024, 1>>)

SwOf(s) == IF s.mw = "Sw" THEN s.v.water ELSE Zero
SgOf(s) == IF s.mg = "Sg" THEN s.v.gas ELSE Zero
SsolOf(s) == IF cfg.enableSolvent THEN s.v.solvent ELSE Zero
SoOf(s) == oilRemainder(SwOf(s), SgOf(s), SsolOf(s))

\* sw + so + sg + ssol of the vector s, added as the code adds them
SaturationSum(s) == ScalarAdd(ScalarAdd(ScalarAdd(SwOf(s), SoOf(s)), SgOf(s)), SsolOf(s))

ChopApplies ==
    /\ Initialised
    /\ ~(primaryVarsMeaningWater = "Disabled" /\ primaryVarsMeaningGas = "Disabled")

RemainderAndSumWithinEpsilon(s) ==
    /\ ScalarLe(MinusEpsilon, SoOf(s))
    /\ NearOne(SaturationSum(s))

C7_ReturnsTrueIffPreClampSumNotOne ==
    ChopApplies =>
        \A r \in {chopAndNormalizeSaturations(Self)} :
            r.ret <=> (SaturationSum(Self) # One)

\* What the saturations lack below 0 and what they exceed 1 by.
Shortfall(x) == ScalarMax(ScalarNeg(x), Zero)
Excess(x) == ScalarMax(ScalarSub(x, One), Zero)

\* C7 amended: the call returns true exactly when the sum of the four
\* saturations, each clamped to [0,1], as the double arithmetic computes it,
\* is not 1; for slot values that are added without rounding this is when
\* what the saturations lack below 0 differs from what they exceed 1 by.
C7_ReturnsTrueIffClampedSumNotOne ==
    ChopApplies =>
        \A r \in {chopAndNormalizeSaturations(Self)} :
            /\ r.ret <=> (clampedSum(SwOf(Self), SgOf(Self), SsolOf(Self)) # One)
            /\ WrittenValues =>
                   \A xs \in {<<SwOf(Self), SgOf(Self), SsolOf(Self), SoOf(Self)>>} :
                       LET lack == ScalarAdd(ScalarAdd(Shortfall(xs[1]), Shortfall(xs[2])),
                                        ScalarAdd(Shortfall(xs[3]), Shortfall(xs[4])))
                           over == ScalarAdd(ScalarAdd(Excess(xs[1]), Excess(xs[2])),
                                        ScalarAdd(Excess(xs[3]), Excess(xs[4])))
                       IN  r.ret <=> (lack # over)

\* Reached: a chop that clamped the water slot from above 1 to 1 and
\* returned false, the clamped sum being 1.
C7_Witness ==
    /\ lastOp = "chop"
    /\ ~ret
    /\ "sw" \in fired
    /\ primaryVarsMeaningWater = "Sw"
    /\ pv["water"] = One

(***************************************************************************)
(* Properties of the local residual, checked under SpecResidual.           *)
(***************************************************************************)
NegVector(a) == [compIdx \in Phases |-> ScalarNeg(a[compIdx])]

\* The pressure difference and the upwind cell the collaborator returns for
\* a phase of the face from cell `interior` to the other cell, and whether
\* the upwind cell is the interior cell.
FaceOfPhase(interior, phaseIdx) ==
    LET exterior == IF interior = "A" THEN "B" ELSE "A"
        face(diff) ==
            [pressureDifference |-> diff.pressureDifference,
             upIsInterior |-> diff.upIdx = interiorDofIdx,
             up |-> IF diff.upIdx = interiorDofIdx THEN intQuants[interior]
                    ELSE intQuants[exterior]]
    IN  face(calculatePhasePressureDiff_(intQuants[interior], intQuants[exterior],
                                         phaseIdx, Zero, Zero))

\* pressureDifference * mobility * transMult * (-trans / faceArea), the
\* product taken from the left
DarcyFluxLeftToRight(face, phaseIdx, trans, area) ==
    ScalarMul(ScalarMul(ScalarMul(face.pressureDifference, face.up.mobility[phaseIdx]),
                        face.up.rockCompTransMultiplier),
              ScalarDiv(ScalarNeg(trans), area))

\* The same product, taken from the left when the upwind cell is the
\* interior cell and as pressureDifference * ((mobility * transMult) *
\* (-trans / faceArea)) when it is the exterior cell
DarcyFluxOnFace(face, phaseIdx, trans, area) ==
    IF face.upIsInterior
    THEN DarcyFluxLeftToRight(face, phaseIdx, trans, area)
    ELSE ScalarMul(face.pressureDifference,
                   ScalarMul(ScalarMul(face.up.mobility[phaseIdx],
                                       face.up.rockCompTransMultiplier),
                             ScalarDiv(ScalarNeg(trans), area)))

\* flux and darcy after a phase with the Darcy flux darcyFlux has added to
\* them: nothing when the phase is inactive or its pressure difference zero.
PhaseOnFace(acc, face, phaseIdx, darcyFlux, area) ==
    IF ~phaseIsActive(phaseIdx) \/ face.pressureDifference = Zero
    THEN acc
    ELSE [flux |-> evalPhaseFluxes_(acc.flux, phaseIdx, face.up.pvtRegionIndex,
                                    ScalarMul(face.up.invB[phaseIdx], darcyFlux), face.up),
          darcy |-> [acc.darcy EXCEPT ![phaseIdx] = ScalarMul(darcyFlux, area)]]

ExpectedOnFace(acc, face, phaseIdx, trans, area) ==
    PhaseOnFace(acc, face, phaseIdx, DarcyFluxOnFace(face, phaseIdx, trans, area), area)

ExpectedLeftToRight(acc, face, phaseIdx, trans, area) ==
    PhaseOnFace(acc, face, phaseIdx, DarcyFluxLeftToRight(face, phaseIdx, trans, area),
                area)

NothingAdded == [flux |-> ZeroVector, darcy |-> ZeroVector]

\* What a phase alone adds to the slots of flux on the face from cell
\* `interior`
ContributionOfPhase(interior, phaseIdx, trans) ==
    ExpectedOnFace(NothingAdded, FaceOfPhase(interior, phaseIdx), phaseIdx, trans,
                   scvfArea).flux

\* For every slot, the sum over the phases of the magnitude of what each
\* adds to the slot, in real numbers
MagnitudeOnSlot(interior, trans) ==
    CHOOSE it \in
        {[compIdx \in Phases |->
             RAdd(RAdd(RAbs(Main(c[1][compIdx])), RAbs(Main(c[2][compIdx]))),
                  RAbs(Main(c[3][compIdx])))] :
            c \in {<<ContributionOfPhase(interior, "water", trans),
                     ContributionOfPhase(interior, "oil", trans),
                     ContributionOfPhase(interior, "gas", trans)>>}} : TRUE

\* x and y stand for real numbers that are negatives of each other, and
\* |x + y| <= 2^-48 * magnitude (the rounding errors are counted in units
\* of 2^-60)
NegatedUpToRounding(x, y, magnitude) ==
    /\ Main(x) = RNeg(Main(y))
    /\ ~RLt(RMul(<<4096, 1>>, magnitude), RAbs(RAdd(Low(x), Low(y))))

\* Zero or plus or minus a power of two: a double that multiplies without
\* rounding
PowerOfTwoOrZero(x) ==
    /\ Len(x) = 2
    /\ \/ x[1] = 0
       \/ Abs(x[1]) = 1 /\ OddPart(x[2]) = 1
       \/ x[2] = 1 /\ OddPart(Abs(x[1])) = 1

\* C8 as stated: for the face between the cells A and B in the same physical
\* state, the flux computed with A as interior and B as exterior is, in
\* every equation slot, the negation of the flux computed with B as interior
\* and A as exterior.
C8_ConservationSymmetry ==
    \A trans \in TransValues :
        computeFlux(intQuants.A, intQuants.B, trans, scvfArea).flux =
            NegVector(computeFlux(intQuants.B, intQuants.A, trans, scvfArea).flux)

\* C8 amended: the two fluxes stand for real numbers that are negatives of
\* each other in every slot; as doubles they differ by rounding: the sum of
\* the two values of a slot is at most 2^-48 times the sum of the magnitudes
\* of what the phases add to the slot, and the two are exact negatives when
\* the pressure difference of every active phase is zero or a power of two.
C8_ConservationSymmetryUpToRounding ==
    \A trans \in TransValues :
        \A ab \in {computeFlux(intQuants.A, intQuants.B, trans, scvfArea).flux},
           ba \in {computeFlux(intQuants.B, intQuants.A, trans, scvfArea).flux},
           magnitude \in {MagnitudeOnSlot("A", trans)} :
            /\ \A compIdx \in Phases :
                   NegatedUpToRounding(ab[compIdx], ba[compIdx], magnitude[compIdx])
            /\ (\A ph \in Phases :
                    phaseIsActive(ph) =>
                        PowerOfTwoOrZero(FaceOfPhase("A", ph).pressureDifference))
                   => ab = NegVector(ba)

\* Reached: computeFlux was called with B as interior while one phase flows
\* from A to B and another from B to A, and its flux is in one slot not the
\* negation of the flux of the opposite orientation, and in another it is.
C8_Witness ==
    /\ residual.op = "computeFlux"
    /\ residual.interior = "B"
    /\ \E up, down \in Phases :
           /\ phaseIsActive(up) /\ phaseIsActive(down)
           /\ ScalarGt(intQuants.A.pressure[up], intQuants.B.pressure[up])
           /\ ScalarLt(intQuants.A.pressure[down], intQuants.B.pressure[down])
           /\ residual.flux[up] # Zero /\ residual.flux[down] # Zero
    /\ \E ab \in {computeFlux(intQuants.A, intQuants.B, residual.trans, scvfArea).flux} :
           /\ \E compIdx \in Phases :
                  /\ residual.flux[compIdx] # ScalarNeg(ab[compIdx])
                  /\ Main(residual.flux[compIdx]) = RNeg(Main(ab[compIdx]))
           /\ \E compIdx \in Phases :
                  /\ residual.flux[compIdx] # Zero
                  /\ residual.flux[compIdx] = ScalarNeg(ab[compIdx])

\* The fluid state a phase of the boundary flux is computed from.
BoundarySource(phaseIdx) ==
    LET pBoundary == intQuants.boundary.pressure[phaseIdx]
        pInside == intQuants.A.pressure[phaseIdx]
    IN  IF ScalarLt(pBoundary, pInside) THEN "inside"
        ELSE IF ScalarGt(pBoundary, pInside) THEN "boundary" ELSE "none"

\* What a phase adds to the boundary flux when it is computed from fluidState.
PhaseContribution(phaseIdx, fluidState, volumeFlux) ==
    evalPhaseFluxes_(ZeroVector, phaseIdx, intQuants.A.pvtRegionIndex,
                     ScalarMul(fluidState.invB[phaseIdx], volumeFlux[phaseIdx]), fluidState)

ExpectedPhaseContribution(phaseIdx, volumeFlux) ==
    CASE ~phaseIsActive(phaseIdx) -> ZeroVector
      [] phaseIsActive(phaseIdx) /\ BoundarySource(phaseIdx) = "inside" ->
            PhaseContribution(phaseIdx, intQuants.A, volumeFlux)
      [] phaseIsActive(phaseIdx) /\ BoundarySource(phaseIdx) = "boundary" ->
            PhaseContribution(phaseIdx, intQuants.boundary, volumeFlux)
      [] OTHER -> ZeroVector

ActiveVolumeFluxes ==
    {vf \in [Phases -> VolumeFluxValues] :
        \A ph \in Phases : ~phaseIsActive(ph) => vf[ph] = Rat(2, 1)}

\* C9: the boundary flux in FREE/DIRICHLET mode is the sum over the active
\* phases of a contribution computed from the inside cell's fluid state when
\* the boundary pressure of the phase is below the inside pressure, from the
\* boundary fluid state when it is above, and of nothing when they are equal.
C9_BoundaryFluxSourcePerPhase ==
    \A vf \in ActiveVolumeFluxes :
        computeBoundaryFluxFree(intQuants.boundary, intQuants.A, vf) =
            adaptMassConservationQuantities_(
                AddVector(ExpectedPhaseContribution("water", vf),
                          AddVector(ExpectedPhaseContribution("oil", vf),
                                    ExpectedPhaseContribution("gas", vf))),
                intQuants.A.pvtRegionIndex)

\* Reached: a boundary flux was computed with one phase flowing out, one
\* flowing in and one at the pressure of the boundary.
C9_Witness ==
    /\ residual.op = "computeBoundaryFluxFree"
    /\ \A ph \in Phases : phaseIsActive(ph)
    /\ {BoundarySource(ph) : ph \in Phases} = {"inside", "boundary", "none"}
    /\ \E ph \in Phases : BoundarySource(ph) = "none" /\ residual.bdyFlux[ph] = Zero
    /\ \E ph \in Phases : residual.bdyFlux[ph] # Zero

\* The part of the surface volume of a phase that counts for a component.
ComponentShare(phaseIdx, compIdx, fluidState) ==
    CASE phaseIdx = compIdx -> One
      [] phaseIdx = "oil" /\ compIdx = "gas" /\ cfg.enableDissolvedGas -> fluidState.Rs
      [] phaseIdx = "water" /\ compIdx = "gas" /\ cfg.enableDissolvedGasInWater ->
            fluidState.Rsw
      [] phaseIdx = "gas" /\ compIdx = "oil" /\ cfg.enableVaporizedOil -> fluidState.Rv
      [] phaseIdx = "gas" /\ compIdx = "water" /\ cfg.enableVaporizedWater ->
            fluidState.Rvw
      [] OTHER -> Zero

\* The surface volume of a component a phase carries over the boundary.
SurfaceVolumeOfPhase(phaseIdx, compIdx, volumeFlux) ==
    LET fluidState == IF BoundarySource(phaseIdx) = "inside"
                      THEN intQuants.A ELSE intQuants.boundary
    IN  IF phaseIsActive(phaseIdx) /\ BoundarySource(phaseIdx) # "none"
        THEN ScalarMul(ScalarMul(fluidState.invB[phaseIdx], volumeFlux[phaseIdx]),
                  ComponentShare(phaseIdx, compIdx, fluidState))
        ELSE Zero

SurfaceVolumeBoundaryFlux(compIdx, volumeFlux) ==
    ScalarAdd(SurfaceVolumeOfPhase("water", compIdx, volumeFlux),
         ScalarAdd(SurfaceVolumeOfPhase("oil", compIdx, volumeFlux),
              SurfaceVolumeOfPhase("gas", compIdx, volumeFlux)))

\* C10: every component slot of the boundary flux in FREE/DIRICHLET mode is
\* the surface-volume boundary flux of the component, multiplied by the
\* reference density of the component when the model conserves mass, and
\* left as it is when the model conserves surface volume.
C10_BoundaryFluxConversion ==
    \A vf \in ActiveVolumeFluxes :
        \A compIdx \in Phases :
            computeBoundaryFluxFree(intQuants.boundary, intQuants.A, vf)[compIdx] =
                ScalarMul(SurfaceVolumeBoundaryFlux(compIdx, vf),
                     IF cfg.blackoilConserveSurfaceVolume THEN One
                     ELSE referenceDensity(compIdx, intQuants.A.pvtRegionIndex))

\* C11: computeBoundaryFlux dispatches on the type of the boundary
\* condition: RATE gives exactly the prescribed mass rate, whatever the
\* pressures; FREE and DIRICHLET give the pressure-driven boundary flux; any
\* other type fails with an error and leaves the caller's vector as it was.
C11_BoundaryFluxDispatch ==
    \A bdyInfo \in BoundaryConditions :
        \A free \in {IF bdyInfo.type \in {"FREE", "DIRICHLET"}
                     THEN computeBoundaryFluxFree(intQuants.boundary, intQuants.A,
                                                  bdyInfo.volumeFlux)
                     ELSE ZeroVector} :
            \A bdyFlux \in PriorRateVectors :
                \A r \in {computeBoundaryFlux(bdyFlux, bdyInfo, intQuants.A)} :
                    CASE bdyInfo.type = "RATE" ->
                            ~r.threw /\ r.bdyFlux = bdyInfo.massRate
                      [] bdyInfo.type \in {"FREE", "DIRICHLET"} ->
                            ~r.threw /\ r.bdyFlux = free
                      [] OTHER -> r.threw /\ r.bdyFlux = bdyFlux

\* Reached: a call with a type that is none of RATE, FREE and DIRICHLET
\* failed and left the vector of the caller, which was not zero, untouched.
C11_Witness ==
    /\ residual.op = "computeBoundaryFlux"
    /\ residual.type \notin {"RATE", "FREE", "DIRICHLET"}
    /\ residual.threw
    /\ residual.bdyFlux # ZeroVector
    /\ \E ph \in Phases :
           phaseIsActive(ph) /\ intQuants.A.pressure[ph] # intQuants.boundary.pressure[ph]

\* C12: serializing the object and deserializing the buffer yields an object
\* that compares equal under operator==, for every slot values, tags and
\* region index; operator== tells apart objects that differ in a raw value,
\* in one of the four tags or in the region index.
C12_SerializationRoundTrip ==
    /\ checkpoint.op = "unpack" => operatorEq(checkpoint.restored, This)
    /\ Defined =>
        /\ operatorEq(unpack(pack(This)), This)
        /\ \A slot \in Slots :
               ~operatorEq([This EXCEPT !.v[slot] = ScalarAdd(@, One)], This)
        /\ \A field \in {"mw", "mp", "mg", "mb"} :
               ~operatorEq([This EXCEPT ![field] = "Undefined"], This)
        /\ ~operatorEq([This EXCEPT !.pvtRegionIdx = @ + 1], This)

\* Reached: an object with the tags of the test object, a written slot and
\* a region index that needs both bytes was packed and unpacked.
C12_Witness ==
    /\ checkpoint.op = "unpack"
    /\ Tags(Self) = <<"Rsw", "Pg", "Rv", "Sp">>
    /\ pvtRegionIdx > 255
    /\ pv["gas"] = ScalarNeg(Half)
    /\ Len(checkpoint.buffer) = 11

(***************************************************************************)
(* Properties of assignNaive.  In a reachable state the vector is given    *)
(* each of the fluid states; a phase is present when it is active and its  *)
(* saturation is positive.                                                 *)
(***************************************************************************)
Present(fs, phaseIdx) == phaseIsActive(phaseIdx) /\ ScalarLt(Zero, fs.S[phaseIdx])

\* C13: assignNaive chooses the pressure meaning by the first match of: gas
\* present, vaporized oil supported and oil absent -> Pg; oil active -> Po;
\* water present, dissolved gas in water supported and gas absent -> Pw;
\* gas active -> Pg; else Pw; the pressure slot holds the pressure of the
\* phase so chosen.
C13_AssignNaivePressureMeaning ==
    \A fs \in FluidStates :
      \A s \in {assignNaive(Self, fs)} :
        LET first == Present(fs, "gas") /\ cfg.enableVaporizedOil /\ ~Present(fs, "oil")
            second == ~first /\ cfg.oilEnabled
            third == /\ ~first /\ ~cfg.oilEnabled
                     /\ Present(fs, "water") /\ cfg.enableDissolvedGasInWater
                     /\ ~Present(fs, "gas")
            fourth == ~first /\ ~cfg.oilEnabled /\ ~third /\ cfg.gasEnabled
        IN  /\ s.mp = "Pg" <=> (first \/ fourth)
            /\ s.mp = "Po" <=> second
            /\ s.mp = "Pw" <=> ~(first \/ second \/ fourth)
            /\ s.mp = "Pg" => s.v.pressure = fs.p["gas"]
            /\ s.mp = "Po" => s.v.pressure = fs.p["oil"]
            /\ s.mp = "Pw" => s.v.pressure = fs.p["water"]

\* Reached: assignNaive chose the gas pressure in a model with an active oil
\* phase, and wrote it to the pressure slot.
C13_Witness ==
    /\ lastOp = "assignNaive"
    /\ cfg.oilEnabled
    /\ primaryVarsMeaningPressure = "Pg"
    /\ pv.pressure = Rat(3, 1)

\* C14: assignNaive chooses the water meaning by the first match of: water
\* and gas present -> Sw; gas present and vaporized water supported -> Rvw;
\* water present and dissolved gas in water supported -> Rsw; water active
\* and more than one phase active -> Sw; else Disabled.
C14_AssignNaiveWaterMeaning ==
    \A fs \in FluidStates :
      \A s \in {assignNaive(Self, fs)} :
        LET first == Present(fs, "water") /\ Present(fs, "gas")
            second == ~first /\ Present(fs, "gas") /\ cfg.enableVaporizedWater
            third == /\ ~first /\ ~second
                     /\ Present(fs, "water") /\ cfg.enableDissolvedGasInWater
            fourth == /\ ~first /\ ~second /\ ~third
                      /\ cfg.waterEnabled /\ numActivePhases > 1
        IN  /\ s.mw = "Sw" <=> (first \/ fourth)
            /\ s.mw = "Rvw" <=> second
            /\ s.mw = "Rsw" <=> third
            /\ s.mw = "Disabled" <=> ~(first \/ second \/ third \/ fourth)

\* Reached: assignNaive disabled the water variable of a model whose only
\* phase is water.
C14_Witness ==
    /\ lastOp = "assignNaive"
    /\ cfg.waterEnabled
    /\ numActivePhases = 1
    /\ primaryVarsMeaningWater = "Disabled"

\* C15: assignNaive chooses the gas meaning by the first match of: gas and
\* oil present -> Sg; oil present and dissolved gas supported -> Rs; gas
\* present and vaporized oil supported -> Rv; gas and oil both active,
\* whatever is present -> Sg; else Disabled.
C15_AssignNaiveGasMeaning ==
    \A fs \in FluidStates :
      \A s \in {assignNaive(Self, fs)} :
        LET first == Present(fs, "gas") /\ Present(fs, "oil")
            second == ~first /\ Present(fs, "oil") /\ cfg.enableDissolvedGas
            third == /\ ~first /\ ~second
                     /\ Present(fs, "gas") /\ cfg.enableVaporizedOil
            fourth == /\ ~first /\ ~second /\ ~third
                      /\ cfg.gasEnabled /\ cfg.oilEnabled
        IN  /\ s.mg = "Sg" <=> (first \/ fourth)
            /\ s.mg = "Rs" <=> second
            /\ s.mg = "Rv" <=> third
            /\ s.mg = "Disabled" <=> ~(first \/ second \/ third \/ fourth)

\* Reached: assignNaive disabled the gas variable of a model with an active
\* gas phase and no oil phase.
C15_Witness ==
    /\ lastOp = "assignNaive"
    /\ cfg.gasEnabled
    /\ ~cfg.oilEnabled
    /\ primaryVarsMeaningGas = "Disabled"

(***************************************************************************)
(* Properties of WeightedResidReductionCriterion, under SpecCriterion.     *)
(***************************************************************************)
\* max_i |w_i * r_i| over the equations of all processes, each process in
\* its call with the residual it was given and the weights of its object.
MaxAbsWeightedResidual(object) ==
    LET values == {ScalarAbs(ScalarMul(weight(object[proc].weightVec, eq),
                             object[proc].curResid[eq])) :
                       proc \in Processes, eq \in Equations}
    IN  CHOOSE e \in values : \A x \in values : ScalarLe(x, e)

\* C16: after setInitial or update with a residual r, the stored error is
\* the maximum over the equations i of all processes of |w_i * r_i|, w_i
\* being 1 when no weight vector was set; for every weight vector, negative
\* weights included.  Stated where comm_.max has handed its result to the
\* processes and none has gone on: the error every process stores when it
\* goes on is that maximum.
C16_StoredErrorIsMaxAbsWeightedResidual ==
    (\A proc \in Processes : criterion.comm.received[proc] # "none") =>
        \A proc \in Processes :
            commMaxReturns(criterion, proc).object[proc].error =
                MaxAbsWeightedResidual(criterion.object)

(***************************************************************************)
(* Invariants of the meaning tags, under Spec.                             *)
(***************************************************************************)
\* C17: with the oil phase active and dissolved gas in water not modelled,
\* in every state reached from assignNaive by slot updates and calls of
\* adaptPrimaryVariables, the pressure meaning is Pg exactly when the gas
\* meaning is Rv and Po otherwise; the gas meaning is never Sg while the
\* pressure meaning is Pg.
C17_PressureMeaningFollowsGasMeaning ==
    (Initialised /\ cfg.oilEnabled /\ ~cfg.enableDissolvedGasInWater) =>
        /\ primaryVarsMeaningPressure = "Pg" <=> primaryVarsMeaningGas = "Rv"
        /\ primaryVarsMeaningPressure # "Pg" => primaryVarsMeaningPressure = "Po"
        /\ ~(primaryVarsMeaningGas = "Sg" /\ primaryVarsMeaningPressure = "Pg")

\* C18: the assertions of adaptPrimaryVariables on the pressure meaning hold
\* in every state reached from assignNaive by slot updates and calls of
\* adaptPrimaryVariables: when the water meaning is Rsw the pressure meaning
\* is Pw, and when a call takes the transition Sw -> Rsw the pressure
\* meaning is Pg.
C18_PressureAssertionsHold ==
    Initialised =>
        /\ primaryVarsMeaningWater = "Rsw" => primaryVarsMeaningPressure = "Pw"
        /\ \A eps \in Tolerances :
               "Sw2Rsw" \in AdaptCall(eps).fired => primaryVarsMeaningPressure = "Pg"

(***************************************************************************)
(* Species accounting of storage and flux, under SpecResidual.             *)
(***************************************************************************)
\* The cell with the saturation of every phase but one set to zero.
OnlyPhase(intQuantsCell, phaseIdx) ==
    [intQuantsCell EXCEPT !.saturation =
        [ph \in Phases |-> IF ph = phaseIdx THEN @[ph] ELSE Zero]]

\* The surface volume of a phase in a cell.
SurfaceVolume(intQuantsCell, phaseIdx) ==
    ScalarMul(ScalarMul(intQuantsCell.saturation[phaseIdx], intQuantsCell.invB[phaseIdx]),
         intQuantsCell.porosity)

\* C19: computeStorage on the surface volume V of an active phase and
\* evalPhaseFluxes_ on a surface-volume flux V add the same amounts to the
\* same slots: V to the slot of the phase, Rs*V (oil) and Rsw*V (water) to
\* the gas slot, Rv*V and Rvw*V (gas) to the oil and water slots where the
\* option is enabled, each times the reference density of the receiving
\* component when mass is conserved; the storage of a cell is the sum over
\* its active phases.
C19_StorageAndFluxAccounting ==
    \A cell \in {"A", "B"} :
        LET iq == intQuants[cell]
            region == iq.pvtRegionIndex
            ofPhase(ph) == IF phaseIsActive(ph)
                           THEN evalPhaseFluxes_(ZeroVector, ph, region,
                                                 SurfaceVolume(iq, ph), iq)
                           ELSE ZeroVector
        IN  \A water \in {ofPhase("water")}, oil \in {ofPhase("oil")},
               gas \in {ofPhase("gas")} :
                /\ computeStorage(iq) = AddVector(water, AddVector(oil, gas))
                /\ \A ph \in Phases :
                       phaseIsActive(ph) =>
                           \A amounts \in {[water |-> water, oil |-> oil,
                                            gas |-> gas][ph]} :
                               /\ computeStorage(OnlyPhase(iq, ph)) = amounts
                               /\ \A compIdx \in Phases :
                                      amounts[compIdx] =
                                          ScalarMul(ScalarMul(ComponentShare(ph, compIdx, iq),
                                                    SurfaceVolume(iq, ph)),
                                               IF cfg.blackoilConserveSurfaceVolume
                                               THEN One
                                               ELSE referenceDensity(compIdx, region))

\* Reached: the storage of a cell was computed in a model that conserves
\* mass, with gas dissolved in oil and in water and with vaporized oil and
\* water.
C19_Witness ==
    /\ residual.op = "computeStorage"
    /\ ~cfg.blackoilConserveSurfaceVolume
    /\ cfg.enableDissolvedGas /\ cfg.enableDissolvedGasInWater
    /\ cfg.enableVaporizedOil /\ cfg.enableVaporizedWater
    /\ \A compIdx \in Phases : ScalarGt(residual.storage[compIdx], Zero)
    /\ residual.storage # storageOfPhases(ZeroVector, intQuants[residual.cell], 1)

(***************************************************************************)
(* The Darcy flux of computeFlux, under SpecResidual.                      *)
(***************************************************************************)
\* flux and darcy of the face from cell `interior` when the phases add to
\* them in the order of the phase index, each with the product taken from
\* the left
FluxLeftToRight(interior, trans, area) ==
    ExpectedLeftToRight(
        ExpectedLeftToRight(
            ExpectedLeftToRight(NothingAdded, FaceOfPhase(interior, "water"), "water",
                                trans, area),
            FaceOfPhase(interior, "oil"), "oil", trans, area),
        FaceOfPhase(interior, "gas"), "gas", trans, area)

\* The same with the product grouped by the side of the upwind cell
FluxOnFace(interior, trans, area) ==
    ExpectedOnFace(
        ExpectedOnFace(
            ExpectedOnFace(NothingAdded, FaceOfPhase(interior, "water"), "water",
                           trans, area),
            FaceOfPhase(interior, "oil"), "oil", trans, area),
        FaceOfPhase(interior, "gas"), "gas", trans, area)

\* C20 as stated: in computeFlux a phase whose pressure difference is zero
\* adds zero to every slot of flux and darcy; another active phase has the
\* Darcy flux pressureDifference * mobility(up) * transMult(up) *
\* (-trans / faceArea) and its slot of darcy is that value times faceArea;
\* an inactive phase adds nothing.
C20_DarcyFluxPerPhase ==
    \A interior \in {"A", "B"}, trans \in TransValues :
        computeFlux(intQuants[interior], intQuants[IF interior = "A" THEN "B" ELSE "A"],
                    trans, scvfArea)
            = FluxLeftToRight(interior, trans, scvfArea)

\* C20 amended: in computeFlux a phase whose pressure difference is zero
\* adds zero to every slot of flux and darcy; another active phase has the
\* Darcy flux ((pressureDifference * mobility(up)) * transMult(up)) *
\* (-trans / faceArea) when its upwind cell is the interior cell and
\* pressureDifference * ((mobility(up) * transMult(up)) * (-trans /
\* faceArea)) when it is the exterior cell, each product rounded, and its
\* slot of darcy is that value times faceArea; an inactive phase adds
\* nothing.
C20_DarcyFluxByUpwindSide ==
    \A interior \in {"A", "B"}, trans \in TransValues :
        computeFlux(intQuants[interior], intQuants[IF interior = "A" THEN "B" ELSE "A"],
                    trans, scvfArea)
            = FluxOnFace(interior, trans, scvfArea)

\* Reached: computeFlux on a face with a phase that flows, an active phase
\* whose pressure difference is zero and an inactive phase.
C20_Witness ==
    /\ residual.op = "computeFlux"
    /\ \E ph \in Phases :
           /\ phaseIsActive(ph)
           /\ FaceOfPhase(residual.interior, ph).pressureDifference # Zero
           /\ residual.darcy[ph] # Zero
    /\ \E ph \in Phases :
           /\ phaseIsActive(ph)
           /\ FaceOfPhase(residual.interior, ph).pressureDifference = Zero
           /\ residual.darcy[ph] = Zero
    /\ \E ph \in Phases : ~phaseIsActive(ph) /\ residual.darcy[ph] = Zero
    /\ residual.flux # ZeroVector
    /\ \E ph \in Phases :
           \E face \in {FaceOfPhase(residual.interior, ph)} :
               /\ phaseIsActive(ph)
               /\ ~face.upIsInterior
               /\ DarcyFluxOnFace(face, ph, residual.trans, scvfArea)
                      # DarcyFluxLeftToRight(face, ph, residual.trans, scvfArea)
               /\ residual.darcy[ph]
                      = ScalarMul(DarcyFluxOnFace(face, ph, residual.trans, scvfArea),
                                  scvfArea)

(***************************************************************************)
(* Properties of the switching cascades, checked under SpecOvershoot.      *)
(***************************************************************************)
\* C21: under water meaning Rsw, when the stored fraction exceeds the
\* saturated gas dissolution factor at the water pressure pw of the pressure
\* slot, the call switches the water meaning to Sw with slot value 1 and the
\* pressure meaning to Pg with slot value pw + (pc_gas - pc_water), and
\* returns true; when it does not exceed the limit, the water meaning, the
\* pressure meaning and both slots are left unchanged.
C21_GasPhaseReappearsFromWater ==
    (Initialised /\ primaryVarsMeaningWater = "Rsw") =>
        \A eps \in Tolerances :
            \A r \in {AdaptCall(eps)} :
                LET pw == pv["pressure"]
                    rswSat == saturatedGasDissolutionFactorWater(pw, Zero)
                    pC == computeCapillaryPressures_(Zero, Zero, One)
                IN  IF ScalarGt(pv["water"], rswSat)
                    THEN /\ r.s.mw = "Sw"
                         /\ r.s.v.water = One
                         /\ r.s.mp = "Pg"
                         /\ r.s.v.pressure = ScalarAdd(pw, ScalarSub(pC.gas, pC.water))
                         /\ r.changed
                    ELSE /\ r.s.mw = "Rsw"
                         /\ r.s.mp = primaryVarsMeaningPressure
                         /\ r.s.v.water = pv["water"]
                         /\ r.s.v.pressure = pv["pressure"]

\* The case of C22: water meaning Sw, sw < -eps, sg > eps and vaporized
\* water supported.
WaterPhaseDisappears(eps) ==
    /\ Initialised
    /\ primaryVarsMeaningWater = "Sw"
    /\ ScalarLt(readSw(Self), ScalarNeg(eps))
    /\ ScalarGt(readSg(Self), eps)
    /\ cfg.enableVaporizedWater

\* The water slot after Sw -> Rvw: the saturated water vaporization factor
\* at the pressure slot, plus pc_gas - pc_oil under pressure meaning Po.
RvwAfterDisappearance ==
    LET sg == readSg(Self)
        pC == computeCapillaryPressures_(ScalarSub(One, sg), sg, Zero)
        p == IF primaryVarsMeaningPressure = "Po"
             THEN ScalarAdd(pv["pressure"], ScalarSub(pC.gas, pC.oil))
             ELSE pv["pressure"]
    IN  saturatedWaterVaporizationFactor(p, Zero)

\* C22 as stated: water-phase disappearance switches the water meaning to
\* Rvw, sets the water slot to the saturated water vaporization factor at the
\* capillary-corrected pressure, leaves the pressure slot and the pressure
\* meaning unchanged and does not take the transition Sw -> Rsw.
C22_WaterPhaseDisappearanceKeepsPressure ==
    \A eps \in Tolerances :
        WaterPhaseDisappears(eps) =>
            \A r \in {AdaptCall(eps)} :
                /\ r.s.mw = "Rvw"
                /\ r.s.v.water = RvwAfterDisappearance
                /\ r.s.v.pressure = pv["pressure"]
                /\ r.s.mp = primaryVarsMeaningPressure
                /\ "Sw2Rsw" \notin r.fired

\* The oil phase disappears in the same call: gas meaning Sg, implied oil
\* saturation < -eps, vaporized oil supported.
OilPhaseDisappears(eps) ==
    /\ primaryVarsMeaningGas = "Sg"
    /\ ScalarLt(ScalarSub(ScalarSub(ScalarSub(One, readSw(Self)), solventSaturation_(Self)), readSg(Self)),
           ScalarNeg(eps))
    /\ ScalarGt(readSg(Self), Zero)
    /\ cfg.enableVaporizedOil

\* C22 amended: water-phase disappearance switches the water meaning to Rvw,
\* sets the water slot to the saturated water vaporization factor at the
\* capillary-corrected pressure and does not take Sw -> Rsw; the pressure slot
\* and the pressure meaning are unchanged unless the oil phase disappears in
\* the same call, and then the pressure meaning is Pg and the slot is raised
\* by pc_gas - pc_oil.
C22_WaterPhaseDisappearance ==
    \A eps \in Tolerances :
        WaterPhaseDisappears(eps) =>
            \A r \in {AdaptCall(eps)} :
                /\ r.s.mw = "Rvw"
                /\ r.s.v.water = RvwAfterDisappearance
                /\ "Sw2Rsw" \notin r.fired
                /\ IF OilPhaseDisappears(eps)
                   THEN LET pC == computeCapillaryPressures_(Zero, readSg(Self), readSw(Self))
                        IN  /\ r.s.mp = "Pg"
                            /\ r.s.v.pressure = ScalarAdd(pv["pressure"], ScalarSub(pC.gas, pC.oil))
                   ELSE /\ r.s.v.pressure = pv["pressure"]
                        /\ r.s.mp = primaryVarsMeaningPressure

\* Reached: the water phase disappeared from a cell with oil pressure and
\* more than half gas, and the oil phase stayed.
C22_Witness ==
    /\ lastOp = "adapt"
    /\ fired = {"Sw2Rvw"}
    /\ ret
    /\ primaryVarsMeaningWater = "Rvw"
    /\ primaryVarsMeaningPressure = "Po"
    /\ primaryVarsMeaningGas = "Sg"
    /\ ScalarGt(pv["gas"], Half)
    /\ pv["water"] = saturatedWaterVaporizationFactor(ScalarAdd(pv["pressure"], One), Zero)

\* The state the call of C23 leaves when the gas cascade reads the pressure
\* p: gas meaning Rv, pressure meaning Pg, pressure slot p + (pc_gas -
\* pc_oil), gas slot min(maximum oil vaporization factor, saturated oil
\* vaporization factor at that pressure), result true.
OilPhaseDisappearedFrom(r, p) ==
    LET pC == computeCapillaryPressures_(Zero,
                  ScalarAdd(readSg(Self), solventSaturation_(Self)), readSw(Self))
        pg == ScalarAdd(p, ScalarSub(pC.gas, pC.oil))
    IN  /\ r.s.mg = "Rv"
        /\ r.s.mp = "Pg"
        /\ r.s.v.pressure = pg
        /\ r.s.v.gas = ScalarMin(maxOilVaporizationFactor,
                            saturatedOilVaporizationFactor(pg, Zero, maxOilSaturation))
        /\ r.changed

\* The same with po, the pressure slot at the start of the call.
OilPhaseDisappeared(r) == OilPhaseDisappearedFrom(r, pv["pressure"])

\* C23 as stated: when the gas meaning is Sg, the implied oil saturation
\* 1 - sw - ssol - sg is < -eps, sg > 0 and vaporized oil is supported, the
\* call switches the gas meaning to Rv and the pressure meaning from Po to
\* Pg, sets the pressure slot to po + (pc_gas - pc_oil) and the gas slot to
\* min(rvMax, rvSat at that pressure), and returns true.
C23_OilPhaseDisappearanceAlways ==
    \A eps \in Tolerances :
        (Initialised /\ primaryVarsMeaningPressure = "Po" /\ OilPhaseDisappears(eps)) =>
            \A r \in {AdaptCall(eps)} : OilPhaseDisappeared(r)

\* The call takes the shortcut for a cell with almost only water.
ShortcutTaken(eps) ==
    /\ ScalarGe(readSw(Self), staticThreshold(thresholdWaterFilledCell, eps))
    /\ ~cfg.enableDissolvedGasInWater

\* The water slot holds more dissolved gas than water at the pressure slot
\* can hold: the water cascade takes Rsw -> Sw.
GasAppearsFromWater ==
    /\ primaryVarsMeaningWater = "Rsw"
    /\ ScalarGt(pv["water"], saturatedGasDissolutionFactorWater(pv["pressure"], Zero))

\* The pressure slot the gas cascade of the call reads: the slot at the
\* start of the call, raised by pc_gas - pc_water at full water when the
\* water cascade has taken Rsw -> Sw.
PressureReadByGasCascade ==
    LET pC == computeCapillaryPressures_(Zero, Zero, One)
    IN  IF GasAppearsFromWater
        THEN ScalarAdd(pv["pressure"], ScalarSub(pC.gas, pC.water))
        ELSE pv["pressure"]

\* C23 amended: the same for a call that does not take the water-filled
\* shortcut, with the pressure slot set to p + (pc_gas - pc_oil) where p is
\* the slot the gas cascade reads: po, but po + (pc_gas - pc_water) at full
\* water when the water meaning is Rsw and the water cascade has taken
\* Rsw -> Sw.  With the water meaning Rsw the assertion that the pressure
\* meaning is Pw fails; with another water meaning no assertion fails.
\* The shortcut returns before the cascades and leaves the gas meaning Sg
\* with gas slot 0 and the pressure meaning Po.
C23_OilPhaseDisappearance ==
    \A eps \in Tolerances :
        (Initialised /\ primaryVarsMeaningPressure = "Po" /\ OilPhaseDisappears(eps)) =>
            \A r \in {AdaptCall(eps)} :
                IF ShortcutTaken(eps)
                THEN r.s.mg = "Sg" /\ r.s.v.gas = Zero /\ r.s.mp = "Po"
                ELSE /\ OilPhaseDisappearedFrom(r, PressureReadByGasCascade)
                     /\ r.af <=> primaryVarsMeaningWater = "Rsw"
                     /\ GasAppearsFromWater => r.s.mw = "Sw" /\ r.s.v.water = One

\* Reached: in a cell with the water meaning Rsw and more than half gas the
\* gas phase appeared from the water and the oil phase disappeared in one
\* call: the assertion failed and the pressure slot, 1 before the call, was
\* raised by 1 twice.
C23_Witness ==
    /\ lastOp = "adapt"
    /\ {"Rsw2Sw", "Sg2Rv"} \subseteq fired
    /\ assertFailed
    /\ ret
    /\ primaryVarsMeaningWater = "Sw"
    /\ primaryVarsMeaningGas = "Rv"
    /\ primaryVarsMeaningPressure = "Pg"
    /\ pv["water"] = One
    /\ pv["pressure"] = Rat(3, 1)
    /\ pv["gas"] = Rat(3, 8)

\* The vector as the brine switch and the water cascade of a call leave it.
AfterWaterCascade(eps) ==
    LET b == adaptBrine(Self, eps)
    IN  adaptWater(b.s, readSw(Self), readSg(Self), b.saltConcentration, eps).s

\* min(the cell's maximum factor, saturated limit * (1 + eps)) for the gas
\* meaning Rs, respectively Rv, at the pressure slot of w.
ReappearanceLimit(w, eps) ==
    LET so == ScalarSub(ScalarSub(One, readSw(Self)), solventSaturation_(Self))
        soMax == ScalarMax(so, maxOilSaturation)
    IN  IF w.mg = "Rs"
        THEN ScalarMin(maxGasDissolutionFactor,
                  ScalarMul(saturatedGasDissolutionFactor(w.v.pressure, so, soMax),
                       ScalarAdd(One, eps)))
        ELSE ScalarMin(maxOilVaporizationFactor,
                  ScalarMul(saturatedOilVaporizationFactor(w.v.pressure, Zero, maxOilSaturation),
                       ScalarAdd(One, eps)))

\* What C24 says of the call r made with eps on the current vector.
GasSlotTests(r, eps) ==
    \A w \in {AfterWaterCascade(eps)} :
        /\ w.mg \in {"Rs", "Rv"} =>
              /\ r.s.mg = "Sg" <=> ScalarGt(w.v.gas, ReappearanceLimit(w, eps))
              /\ (w.mg = "Rs" /\ r.s.mg = "Sg") =>
                     r.s.v.gas = Zero /\ r.s.mp = w.mp
              /\ (w.mg = "Rv" /\ r.s.mg = "Sg") =>
                     /\ r.s.v.gas = ScalarSub(ScalarSub(One, readSw(Self)), solventSaturation_(Self))
                     /\ r.s.mp = "Po"
        /\ w.mg = "Sg" =>
              LET sw == readSw(Self)
                  sg == readSg(Self)
                  s0 == ScalarSub(ScalarSub(One, sw), solventSaturation_(Self))
              IN  /\ "Sg2Rs" \in r.fired <=>
                         (ScalarLt(sg, ScalarNeg(eps)) /\ ScalarGt(s0, Zero) /\ cfg.enableDissolvedGas)
                  /\ "Sg2Rv" \in r.fired <=>
                         (ScalarLt(ScalarSub(s0, sg), ScalarNeg(eps)) /\ ScalarGt(sg, Zero)
                            /\ cfg.enableVaporizedOil)

\* C24 as stated: under gas meaning Rs, respectively Rv, the gas meaning
\* switches back to Sg exactly when the stored value exceeds min(the cell's
\* maximum factor, saturated limit * (1 + eps)); Rs -> Sg sets the gas slot
\* to 0 and leaves the pressure meaning, Rv -> Sg sets the gas slot to
\* 1 - sw - ssol and the pressure meaning to Po; the disappearance tests
\* under Sg compare with -eps and 0, without the multiplier.
C24_GasSlotReappearanceTestAlways ==
    Initialised =>
        \A eps \in Tolerances : \A r \in {AdaptCall(eps)} : GasSlotTests(r, eps)

\* C24 amended: the same, for a call that does not take the water-filled
\* shortcut; the shortcut switches the gas meaning to Sg with gas slot 0
\* whatever the stored value, and leaves the pressure meaning.
C24_GasSlotReappearanceTest ==
    Initialised =>
        \A eps \in Tolerances :
            \A r \in {AdaptCall(eps)} :
                IF ShortcutTaken(eps)
                THEN compositionSwitchEnabled =>
                        /\ r.s.mg = "Sg"
                        /\ r.s.v.gas = Zero
                        /\ r.s.mp = primaryVarsMeaningPressure
                ELSE GasSlotTests(r, eps)

\* Reached: the oil phase reappeared, the stored Rv exceeding the limit; the
\* gas slot holds 1 - sw and the pressure meaning is Po.
C24_Witness ==
    /\ lastOp = "adapt"
    /\ "Rv2Sg" \in fired
    /\ "waterFilled" \notin fired
    /\ ret
    /\ primaryVarsMeaningGas = "Sg"
    /\ primaryVarsMeaningPressure = "Po"
    /\ primaryVarsMeaningWater = "Sw"
    /\ pv["gas"] = ScalarSub(One, pv["water"])
    /\ ScalarGt(pv["water"], Zero)

(***************************************************************************)
(* Properties of NewtonMethod::execute, checked under SpecNewton.          *)
(***************************************************************************)
\* The call is between its first declaration and its return or throw.
Executing == newton.pc \in {"while", "attempt", "afterLoop"}

\* The step that leaves an inner Newton loop with error > tolerance.
AttemptFails ==
    /\ newton.pc = "attempt"
    /\ newton'.pc # "attempt"
    /\ ScalarGt(newton.error, newton.tolerance)

\* C25: whenever an inner Newton loop ends with error > tolerance, it has
\* run maxIter iterations, the time-step size is halved and stored in the
\* local Jacobian and the solution is reset to that of the old time step;
\* after a failed attempt a new attempt starts exactly when the time-step
\* size is still above minDt, and the time-step size never increases once
\* an attempt has failed.
C25_RetryWithSmallerStep ==
    [][/\ AttemptFails =>
            /\ newton.iter = newton.maxIter
            /\ newton'.dt = ScalarMul(Half, newton.dt)
            /\ newton'.localJacobianDt = newton'.dt
            /\ newton'.u = 0
            /\ newton'.divided
            /\ newton'.pc = "while"
       /\ (newton.pc = "while" /\ newton.failed > 0) =>
            (newton'.pc = "attempt" <=> ScalarGt(newton.dt, newton.minDt))
       /\ (Executing /\ newton.failed > 0) =>
            /\ ScalarLe(newton'.dt, newton.dt)
            /\ ScalarLe(newton'.localJacobianDt, newton.localJacobianDt)]_vars

\* Reached: the second attempt of a call, one Newton iteration in, at half
\* the time-step size and restarted from the solution of the old time step.
C25_Witness ==
    /\ newton.pc = "attempt"
    /\ newton.failed = 1
    /\ newton.maxIter > 0
    /\ newton.iter = 1
    /\ newton.u = 1
    /\ newton.dt = ScalarMul(Half, newton.dt0)
    /\ newton.localJacobianDt = newton.dt

\* The call has ended: it returned or it threw MathError.
Ended == newton.pc \in {"returned", "MathError"}

\* The last Newton iteration of the last attempt had error <= tolerance.
ConvergedAttemptMade ==
    newton.iter >= 1 /\ ScalarLe(newton.error, newton.tolerance)

\* What C26 says of every way the call ends, but for its normal return.
EndsOfExecute ==
    /\ newton.pc = "MathError" => ScalarLe(newton.dt, newton.minDt)
    /\ (Ended /\ ScalarLe(newton.dt0, newton.minDt)) =>
            newton.pc = "MathError" /\ newton.steps = 0

\* C26 as stated: the call always ends, by a normal return after an attempt
\* whose last Newton iteration had error <= tolerance or by MathError with
\* the time-step size <= minDt; it never returns without a converged
\* attempt, and with an initial time-step size <= minDt it throws without
\* running a Newton iteration.
C26_ExecuteEndsConvergedOrThrows ==
    /\ [](/\ EndsOfExecute
          /\ newton.pc = "returned" => ConvergedAttemptMade)
    /\ <>Ended

\* C26 amended: the same for a tolerance below 1e100, the error the call
\* starts with; for a tolerance of 1e100 or more the outer loop is never
\* entered and, with a time-step size above minDt, the call returns normally
\* without a Newton iteration.
C26_ExecuteEnds ==
    /\ [](/\ EndsOfExecute
          /\ newton.pc = "returned" =>
                IF ScalarLt(newton.tolerance, initialError)
                THEN ConvergedAttemptMade
                ELSE newton.steps = 0 /\ ScalarGt(newton.dt0, newton.minDt)
                        /\ newton.localJacobianDt = newton.dt0)
    /\ <>Ended

\* Reached: MathError after two failed attempts that ran Newton iterations,
\* the time-step size halved down to minDt.
C26_Witness ==
    /\ newton.pc = "MathError"
    /\ newton.failed = 2
    /\ newton.steps = 2 * newton.maxIter
    /\ newton.maxIter > 0
    /\ newton.dt = newton.minDt

\* The time-step size at the start of the call divided by 2 to the number
\* of failed attempts.
HalvedDt == ScalarDiv(newton.dt0, Rat(2 ^ newton.failed, 1))

\* C27: the time-step size is doubled only on a successful return, exactly
\* when no attempt failed earlier in the call and the converged attempt used
\* fewer than goodIter iterations: the local Jacobian then holds twice the
\* initial size; before the return, and on every other successful return, it
\* holds the initial size divided by 2 to the number of failed attempts.
C27_DoubledOnlyAfterQuickConvergence ==
    /\ (Executing \/ newton.pc = "MathError") =>
            newton.dt = HalvedDt /\ newton.localJacobianDt = HalvedDt
    /\ newton.pc = "returned" =>
            IF newton.failed = 0 /\ ConvergedAttemptMade /\ newton.iter < newton.goodIter
            THEN newton.localJacobianDt = ScalarMul(Rat(2, 1), newton.dt0)
            ELSE newton.localJacobianDt = HalvedDt

\* Reached: a return after one failed attempt and a second attempt that
\* converged in fewer than goodIter iterations; the time-step size is half
\* the initial one, not doubled.
C27_Witness ==
    /\ newton.pc = "returned"
    /\ newton.failed = 1
    /\ newton.iter >= 1
    /\ newton.iter < newton.goodIter
    /\ ScalarLe(newton.error, newton.tolerance)
    /\ newton.localJacobianDt = ScalarMul(Half, newton.dt0)

ChopStep ==
    /\ lastOp' = "chop"
    /\ lastOp # "chop" \/ <<pv, ret, fired, assertFailed>>' # <<pv, ret, fired, assertFailed>>

\* What a call leaves alone between the vector s and its result r: the
\* meaning tags, the pressure slot, and the water and the gas slot when their
\* meaning is not a saturation.
ChopLeavesAlone(s, r) ==
    /\ Tags(r) = Tags(s)
    /\ r.v.pressure = s.v.pressure
    /\ s.mw # "Sw" => r.v.water = s.v.water
    /\ s.mg # "Sg" => r.v.gas = s.v.gas

\* C29: chopAndNormalizeSaturations is idempotent and touches only
\* saturation slots: a second call made right after a first call returns
\* false and changes no slot, and a call changes no meaning tag, not the
\* pressure slot, not the PVT region index, and not a water or gas slot whose
\* meaning is not a saturation.
C29_ChopIdempotentOnSaturationSlots ==
    /\ [](Initialised =>
            \A first \in {chopAndNormalizeSaturations(Self)} :
                \A second \in {chopAndNormalizeSaturations(first.s)} :
                    /\ ~second.ret
                    /\ second.s = first.s
                    /\ ChopLeavesAlone(Self, first.s))
    /\ [][ChopStep => /\ pvtRegionIdx' = pvtRegionIdx
                      /\ ChopLeavesAlone(Self, Self')]_vars

\* Reached: a second call made right after a first call, in PVT region
\* 65535, that returned true and changed the gas and the solvent slot.
C29_SecondCallRescales ==
    /\ lastOp = "chop"
    /\ ret
    /\ fired = {}
    /\ pvtRegionIdx = 65535
    /\ primaryVarsMeaningWater = "Sw"
    /\ primaryVarsMeaningGas = "Sg"
    /\ pv["water"] = Zero
    /\ Low(pv["gas"]) # Zero


\* A step of assignNaive, adaptPrimaryVariables or
\* chopAndNormalizeSaturations, told by what it records.
PrimaryVariablesCallStep ==
    /\ lastOp' \in {"assignNaive", "adapt", "chop"}
    /\ <<lastOp, pv, Tags(Self), ret, fired, assertFailed, thresholdWaterFilledCell>>'
           # <<lastOp, pv, Tags(Self), ret, fired, assertFailed, thresholdWaterFilledCell>>

\* A step of setPvtRegionIndex that stores another index than the one held.
SetPvtRegionIndexStep ==
    /\ ~PrimaryVariablesCallStep
    /\ pvtRegionIdx' # pvtRegionIdx

\* C30: pvtRegionIndex() after setPvtRegionIndex(v) returns v for every
\* unsigned value v, so the index stored by a call is one of the values
\* given, and no call of assignNaive, adaptPrimaryVariables or
\* chopAndNormalizeSaturations changes the stored index.
C30_RegionIndexRoundTrip ==
    [][/\ SetPvtRegionIndexStep => pvtRegionIdx' \in RegionIndexValues
       /\ PrimaryVariablesCallStep => pvtRegionIdx' = pvtRegionIdx]_vars


\* C30 with the width of the field: the index stored by setPvtRegionIndex(v)
\* is v for every v below 65536 and otherwise the value below 65536 that
\* differs from v by a multiple of 65536; the stored index stays below
\* 65536, and no call of assignNaive, adaptPrimaryVariables or
\* chopAndNormalizeSaturations changes it.
C30_RegionIndexRoundTripBelow65536 ==
    /\ [](pvtRegionIdx \in 0..65535)
    /\ [][/\ SetPvtRegionIndexStep =>
              \E value \in RegionIndexValues :
                  /\ value < 65536 => pvtRegionIdx' = value
                  /\ (value - pvtRegionIdx') % 65536 = 0
          /\ PrimaryVariablesCallStep => pvtRegionIdx' = pvtRegionIdx]_vars

\* Reached: setPvtRegionIndex(65535) stored 65535, and a later call of
\* adaptPrimaryVariables switched a meaning and left the index.
C30_Witness ==
    /\ pvtRegionIdx = 65535
    /\ lastOp = "adapt"
    /\ ret
    /\ fired # {}

====
